---- MODULE Spec2Model ----
(***************************************************************************)
(* A model of prowgen, the job generator of istio/test-infra:              *)
(*   - the hierarchical merge of CommonConfig (mergeCommonConfig,          *)
(*     resolveOverwrites), on values and on references into a heap;        *)
(*   - the matrix expansion (applyMatrixJob, applyMatrix,                  *)
(*     resolveCombinations, validateString);                               *)
(*   - the validator (validateJobsConfig).                                 *)
(* Each component has its own specification over its own variables; the    *)
(* variables of the other components stay at their initial value.          *)
(***************************************************************************)
EXTENDS Integers, Sequences, FiniteSets, TLC

VARIABLES
    \* ---- merge, on values
    configs,        \* the chain handed to mergeCommonConfig: <<base, repository, job>>
    merged,         \* mergeCommonConfig(configs...)
    nested,         \* mergeCommonConfig(mergeCommonConfig(A, B), C)
    resolved,       \* resolveOverwrites(base, jobsConfig)
    mpc,            \* how far the merge run got
    \* ---- merge, on references: who shares storage with whom
    heap,           \* the maps and backing arrays allocated so far, by address
    refs,           \* <<base, repository, job>> as read: each map and slice field an address
    outs,           \* the configs that merging and resolving returned
    mutations,      \* the writes made through the configs of outs
    \* ---- matrix expansion
    job,            \* the job template handed to applyMatrixJob
    matrix,         \* JobsConfig.Matrix: dimension -> values
    expanded,       \* what applyMatrixJob came to: the jobs, or the fatal exit
    xpc,            \* how far the expansion got
    \* ---- validation
    catalog,        \* the JobsConfig handed to validateJobsConfig
    errs,           \* the errors validateJobsConfig returned, in order
    vpc,            \* how far the validation got
    \* ---- materialization
    cli,            \* the Client: its base config and LongJobNamesAllowed
    branch,         \* the target branch
    output,         \* what ConvertJobConfig returned: the job sets and the error
    cpc,            \* how far the conversion got
    \* ---- diff against the persisted jobs
    generated,      \* Diff's result: the presubmits and postsubmits just generated
    persisted,      \* Diff's existing: the presubmits and postsubmits persisted
    printed,        \* the lines Diff printed, in order
    dpc,            \* how far the diff got
    \* ---- check mode
    checked,        \* the jobs handed to Write and to CheckConfig
    header,         \* the header handed to Write and to CheckConfig
    currentConfigFile, \* the bytes of the file, or that there is none; origin:
                    \* the arguments of the Write the bytes come from, if unedited
    cerr,           \* what CheckConfig returned
    kpc,            \* how far the check got
    \* ---- container environment
    envs,           \* <<jobConfig.Env, job.Env>>
    joined,         \* what joinEnv returned
    epc             \* how far the join got

mergeVars == <<configs, merged, nested, resolved, mpc>>
aliasVars == <<heap, refs, outs, mutations>>
matrixVars == <<job, matrix, expanded, xpc>>
validateVars == <<catalog, errs, vpc>>
convertVars == <<cli, branch, output, cpc>>
diffVars == <<generated, persisted, printed, dpc>>
checkVars == <<checked, header, currentConfigFile, cerr, kpc>>
envVars == <<envs, joined, epc>>
toolVars == <<diffVars, checkVars, envVars>>

vars == <<configs, merged, nested, resolved, mpc, heap, refs, outs, mutations,
          job, matrix, expanded, xpc, catalog, errs, vpc,
          cli, branch, output, cpc,
          generated, persisted, printed, dpc,
          checked, header, currentConfigFile, cerr, kpc,
          envs, joined, epc>>

(***************************************************************************)
(* Bounds                                                                  *)
(***************************************************************************)
\* total number of entries (set scalars, map keys, slice elements) of a chain
MaxEntries == 4
\* the same, for the chains laid out in the heap
MaxHeapEntries == 2
\* catalogs read and resolved against one base config
MaxCatalogs == 2
\* writes made through the returned configs
MaxMutations == 1
\* tokens of the command of a job template
MaxTokens == 2
\* values of a matrix, over its dimensions
MaxValues == 4
\* jobs of a catalog
MaxJobs == 2
\* fields of a catalog set off their usual value, entries of its lists
MaxDeviations == 3

(***************************************************************************)
(* Helpers                                                                 *)
(***************************************************************************)
EmptyMap == [k \in {} |-> ""]

SeqsUpTo(S, n) == UNION {[1..k -> S] : k \in 0..n}

PartialMaps(K, V) == UNION {[D -> V] : D \in SUBSET K}

(***************************************************************************)
(* CommonConfig, by kind of field: Image stands for the scalar fields,     *)
(* Labels for the map fields that mergo unions, NodeSelector is the        *)
(* special-cased map, Requirements stands for the slice fields.            *)
(***************************************************************************)
Scalars == {"", "img1", "img2"}
Keys == {"k1", "k2"}
LabelVals == {"", "a", "b"}
SelectorVals == {"a", "b"}
Elems == {"r1", "r2"}

CommonConfig(n) ==
    [Image : Scalars,
     Labels : PartialMaps(Keys, LabelVals),
     NodeSelector : PartialMaps(Keys, SelectorVals),
     Requirements : SeqsUpTo(Elems, n)]

EmptyConfig ==
    [Image |-> "", Labels |-> EmptyMap, NodeSelector |-> EmptyMap, Requirements |-> <<>>]

ConfigSize(c) ==
    (IF c.Image = "" THEN 0 ELSE 1) + Cardinality(DOMAIN c.Labels)
        + Cardinality(DOMAIN c.NodeSelector) + Len(c.Requirements)

ConfigsOfSize(n) == {c \in CommonConfig(n) : ConfigSize(c) = n}

\* the ways to spread at most n entries over a chain of three configs
SplitsOf(n) == {s \in [1..3 -> 0..n] : s[1] + s[2] + s[3] <= n}
Splits == SplitsOf(MaxEntries)

(***************************************************************************)
(* mergo.Merge(&dst, src, WithAppendSlice, WithSliceDeepCopy)              *)
(***************************************************************************)
\* WithSliceDeepCopy sets Config.Overwrite
Overwrite == TRUE

isEmptyValue(v) == v = ""

\* mergo.Merge without Config.Overwrite: a set destination is kept
mergeScalar_keepDst(dst, src) ==
    IF isEmptyValue(dst) /\ ~isEmptyValue(src) THEN src ELSE dst

\* deepMerge, default case: a scalar
mergeScalar(dst, src) ==
    IF (isEmptyValue(dst) \/ Overwrite) /\ ~isEmptyValue(src) THEN src ELSE dst

\* deepMerge, case reflect.Map with string elements
mergeMap(dst, src) ==
    [k \in DOMAIN dst \cup DOMAIN src |->
        IF k \in DOMAIN src /\ (Overwrite \/ k \notin DOMAIN dst \/ isEmptyValue(dst[k]))
        THEN src[k] ELSE dst[k]]

\* deepMerge, case reflect.Slice without Config.AppendSlice: the source replaces
mergeSlice_replace(dst, src) == IF src # <<>> THEN src ELSE dst

\* deepMerge, case reflect.Slice under Config.AppendSlice
mergeSlice(dst, src) == dst \o src

\* deepMerge, case reflect.Struct: field by field
mergoMerge(dst, src) ==
    [Image |-> mergeScalar(dst.Image, src.Image),
     Labels |-> mergeMap(dst.Labels, src.Labels),
     NodeSelector |-> mergeMap(dst.NodeSelector, src.NodeSelector),
     Requirements |-> mergeSlice(dst.Requirements, src.Requirements)]

(***************************************************************************)
(* mergeCommonConfig: the loop body and the loop                           *)
(***************************************************************************)
\* the loop body without the NodeSelector special case
mergeStep_unionSelector(acc, config) == mergoMerge(acc, config)

mergeStep(acc, config) ==
    LET m == mergoMerge(acc, config)
    IN  IF Cardinality(DOMAIN config.NodeSelector) # 0
        THEN [m EXCEPT !.NodeSelector = config.NodeSelector]
        ELSE m

RECURSIVE mergeLoop(_, _, _)
mergeLoop(acc, cs, i) ==
    IF i > Len(cs) THEN acc ELSE mergeLoop(mergeStep(acc, cs[i]), cs, i + 1)

mergeCommonConfig(cs) == mergeLoop(EmptyConfig, cs, 1)

\* resolveOverwrites merging every job over the repository's config as read,
\* not over the repository's config merged with the base
resolveOverwrites_staleRepo(baseCommonConfig, jobsConfig) ==
    LET cc == mergeCommonConfig(<<baseCommonConfig, jobsConfig.CommonConfig>>)
    IN  [CommonConfig |-> cc,
         Jobs |-> [i \in DOMAIN jobsConfig.Jobs |->
                     [CommonConfig |->
                        mergeCommonConfig(<<jobsConfig.CommonConfig,
                                            jobsConfig.Jobs[i].CommonConfig>>)]]]

\* resolveOverwrites: the repository's config over the base, every job's over that
resolveOverwrites(baseCommonConfig, jobsConfig) ==
    LET cc == mergeCommonConfig(<<baseCommonConfig, jobsConfig.CommonConfig>>)
    IN  [CommonConfig |-> cc,
         Jobs |-> [i \in DOMAIN jobsConfig.Jobs |->
                     [CommonConfig |->
                        mergeCommonConfig(<<cc, jobsConfig.Jobs[i].CommonConfig>>)]]]

EmptyJobsConfig == [CommonConfig |-> EmptyConfig, Jobs |-> <<>>]

(***************************************************************************)
(* The merge run: merge the chain, merge it in two steps, resolve it as    *)
(* base, repository and job.                                               *)
(***************************************************************************)
NotExpanded == [exited |-> FALSE, context |-> "", jobs |-> <<>>]

MatrixIdle ==
    /\ job = [Name |-> <<>>, Command |-> <<>>]
    /\ matrix = EmptyMap
    /\ expanded = NotExpanded
    /\ xpc = "start"

NoOutput ==
    [PresubmitsStatic |-> <<>>, PostsubmitsStatic |-> <<>>, Periodics |-> <<>>,
     err |-> <<>>, exited |-> FALSE]

ConvertIdle ==
    /\ cli = [LongJobNamesAllowed |-> FALSE]
    /\ branch = <<>>
    /\ output = NoOutput
    /\ cpc = "start"

NoJobs == [PresubmitsStatic |-> <<>>, PostsubmitsStatic |-> <<>>]

DiffIdle ==
    /\ generated = NoJobs
    /\ persisted = NoJobs
    /\ printed = <<>>
    /\ dpc = "start"

CheckIdle ==
    /\ checked = <<>>
    /\ header = <<>>
    /\ currentConfigFile = [found |-> FALSE, bytes |-> <<>>, origin |-> <<>>]
    /\ cerr = ""
    /\ kpc = "start"

EnvIdle ==
    /\ envs = <<<<>>, <<>>>>
    /\ joined = <<>>
    /\ epc = "start"

ToolsIdle == DiffIdle /\ CheckIdle /\ EnvIdle

ValidateIdle ==
    /\ catalog = [Org |-> "", Repo |-> "", ResourcePresets |-> {}, Jobs |-> <<>>]
    /\ errs = <<>>
    /\ vpc = "start"

AliasIdle ==
    /\ heap = <<>>
    /\ refs = <<>>
    /\ outs = <<>>
    /\ mutations = 0

MergeInit ==
    /\ ToolsIdle
    /\ AliasIdle
    /\ MatrixIdle
    /\ ValidateIdle
    /\ ConvertIdle
    /\ \E s \in Splits :
         \E a \in ConfigsOfSize(s[1]), b \in ConfigsOfSize(s[2]), c \in ConfigsOfSize(s[3]) :
            configs = <<a, b, c>>
    /\ merged = EmptyConfig
    /\ nested = EmptyConfig
    /\ resolved = EmptyJobsConfig
    /\ mpc = "start"

Merge ==
    /\ mpc = "start"
    /\ merged' = mergeCommonConfig(configs)
    /\ mpc' = "merged"
    /\ UNCHANGED <<configs, nested, resolved, aliasVars, matrixVars, validateVars, convertVars, toolVars>>

MergeNested ==
    /\ mpc = "merged"
    /\ nested' = mergeCommonConfig(<<mergeCommonConfig(<<configs[1], configs[2]>>), configs[3]>>)
    /\ mpc' = "nested"
    /\ UNCHANGED <<configs, merged, resolved, aliasVars, matrixVars, validateVars, convertVars, toolVars>>

ResolveOverwrites ==
    /\ mpc = "nested"
    /\ resolved' = resolveOverwrites(configs[1],
                        [CommonConfig |-> configs[2],
                         Jobs |-> <<[CommonConfig |-> configs[3]]>>])
    /\ mpc' = "resolved"
    /\ UNCHANGED <<configs, merged, nested, aliasVars, matrixVars, validateVars, convertVars, toolVars>>

MergeNext == Merge \/ MergeNested \/ ResolveOverwrites

SpecMerge == MergeInit /\ [][MergeNext]_vars

(***************************************************************************)
(* Claims about the merge                                                  *)
(***************************************************************************)
Max(S) == CHOOSE x \in S : \A y \in S : y <= x

\* the configs of the chain that set the scalar / hold the key / declare a selector
SettingImage == {i \in DOMAIN configs : configs[i].Image # ""}
HoldingLabel(k) == {i \in DOMAIN configs : k \in DOMAIN configs[i].Labels}
DeclaringSelector == {i \in DOMAIN configs : DOMAIN configs[i].NodeSelector # {}}

\* C1: later entries win. A scalar field of the result holds the value of the
\* last config of the chain that sets it non-empty (and is empty when none
\* does); a map field other than NodeSelector is the key-wise union of the
\* inputs, each key mapped to its value in the last config that holds it.
C1_LaterWins ==
    mpc # "start" =>
        /\ merged.Image =
              IF SettingImage = {} THEN "" ELSE configs[Max(SettingImage)].Image
        /\ DOMAIN merged.Labels = UNION {DOMAIN configs[i].Labels : i \in DOMAIN configs}
        /\ \A k \in DOMAIN merged.Labels :
              merged.Labels[k] = configs[Max(HoldingLabel(k))].Labels[k]

\* two configs set the scalar differently, and a key is held by two configs
\* with different values
C1_Witness ==
    /\ mpc = "merged"
    /\ \E i, j \in SettingImage : i < j /\ configs[i].Image # configs[j].Image
    /\ \E k \in Keys : \E i, j \in HoldingLabel(k) :
          i < j /\ configs[i].Labels[k] # configs[j].Labels[k]

RECURSIVE ConcatRequirements(_)
ConcatRequirements(cs) ==
    IF cs = <<>> THEN <<>> ELSE Head(cs).Requirements \o ConcatRequirements(Tail(cs))

\* C2: a slice field of the result is exactly the concatenation of the
\* inputs' slices in input order: nothing dropped, reordered or deduplicated.
C2_SlicesConcatenate ==
    mpc # "start" => merged.Requirements = ConcatRequirements(configs)

\* an element occurs in two inputs, with another one between them
C2_Witness ==
    /\ mpc = "merged"
    /\ configs[1].Requirements = <<"r2">>
    /\ configs[2].Requirements = <<"r1">>
    /\ configs[3].Requirements = <<"r2">>
    /\ merged.Requirements = <<"r2", "r1", "r2">>

\* C3: the NodeSelector of the result is exactly the NodeSelector of the last
\* config that declares a non-empty one, and is empty when none does.
C3_SelectorReplaced ==
    mpc # "start" =>
        merged.NodeSelector =
            IF DeclaringSelector = {} THEN EmptyMap
            ELSE configs[Max(DeclaringSelector)].NodeSelector

\* an earlier selector with a key the last declared selector lacks, and a
\* last config that declares none
C3_Witness ==
    /\ mpc = "merged"
    /\ DOMAIN configs[1].NodeSelector = {"k1"}
    /\ DOMAIN configs[2].NodeSelector = {"k2"}
    /\ DOMAIN configs[3].NodeSelector = {}
    /\ DOMAIN merged.NodeSelector = {"k2"}

\* the fields the associativity is stated for: all but NodeSelector
SameBesidesSelector(x, y) ==
    /\ x.Image = y.Image
    /\ x.Labels = y.Labels
    /\ x.Requirements = y.Requirements

\* C4: merging [A, B, C] equals merging [merge([A, B]), C] on every field
\* other than NodeSelector, and the job config resolveOverwrites computes in
\* two steps equals the three-way merge base -> repository -> job.
C4_MergeAssociative ==
    /\ mpc \in {"nested", "resolved"} => SameBesidesSelector(nested, merged)
    /\ mpc = "resolved" =>
          /\ Len(resolved.Jobs) = 1
          /\ SameBesidesSelector(resolved.Jobs[1].CommonConfig, merged)

\* base, repository and job each contribute, and the job overrides the base
C4_Witness ==
    /\ mpc = "resolved"
    /\ \A i \in 1..3 : ConfigSize(configs[i]) > 0
    /\ configs[1].Image # ""
    /\ configs[3].Image # ""
    /\ configs[1].Image # configs[3].Image
    /\ resolved.Jobs[1].CommonConfig.Image = configs[3].Image

(***************************************************************************)
(* The merge on references. A map field is the address of a map, a slice   *)
(* field a slice header (backing array, length); address 0 is nil. The     *)
(* heap only grows: nothing is collected.                                  *)
(***************************************************************************)
alloc(h, obj) == [heap |-> Append(h, obj), addr |-> Len(h) + 1]

NilSlice == [arr |-> 0, len |-> 0]

EmptyRefConfig ==
    [Image |-> "", Labels |-> 0, NodeSelector |-> 0, Requirements |-> NilSlice]

mapAt(h, a) == IF a = 0 THEN EmptyMap ELSE h[a]

sliceAt(h, sl) == IF sl.arr = 0 THEN <<>> ELSE SubSeq(h[sl.arr], 1, sl.len)

\* yaml.Marshal: the document, read through the references
marshalConfig(h, rc) ==
    [Image |-> rc.Image,
     Labels |-> mapAt(h, rc.Labels),
     NodeSelector |-> mapAt(h, rc.NodeSelector),
     Requirements |-> sliceAt(h, rc.Requirements)]

\* yaml.Unmarshal into a zero value: fresh storage for every map and slice of
\* the document; an empty one is omitted from the document (omitempty) and
\* stays nil
unmarshalMap(h, m) == IF DOMAIN m = {} THEN [heap |-> h, addr |-> 0] ELSE alloc(h, m)

unmarshalSlice(h, q) ==
    IF q = <<>> THEN [heap |-> h, val |-> NilSlice]
    ELSE [heap |-> Append(h, q), val |-> [arr |-> Len(h) + 1, len |-> Len(q)]]

\* In the operators below an intermediate result is bound as the element of
\* a one-element set, Bind({ ... x ... : x \in {e}}), which evaluates e once.
Bind(S) == CHOOSE x \in S : TRUE

unmarshalConfig(h, v) ==
    Bind({ Bind({ Bind({
        [heap |-> r.heap,
         val |-> [Image |-> v.Image, Labels |-> l.addr,
                  NodeSelector |-> n.addr, Requirements |-> r.val]]
        : r \in {unmarshalSlice(n.heap, v.Requirements)} })
        : n \in {unmarshalMap(l.heap, v.NodeSelector)} })
        : l \in {unmarshalMap(h, v.Labels)} })

deepCopyCommonConfig(h, rc) == unmarshalConfig(h, marshalConfig(h, rc))

\* the map handed back as it is, not copied
deepCopyMap_shared(h, a) == [heap |-> h, addr |-> a]

\* deepCopyMap: the document unmarshalled into a new map
deepCopyMap(h, a) == alloc(h, mapAt(h, a))

\* deepMerge, case reflect.Map: a nil destination is made, the keys are set in it
mergeMapRef(h, dst, src) ==
    IF src = 0 THEN [heap |-> h, addr |-> dst]
    ELSE IF dst = 0
    THEN [heap |-> Append(h, mergeMap(EmptyMap, h[src])), addr |-> Len(h) + 1]
    ELSE [heap |-> [h EXCEPT ![dst] = mergeMap(@, h[src])], addr |-> dst]

\* reflect.AppendSlice: the capacity of the array that a grown slice gets
RECURSIVE doubleCap(_, _)
doubleCap(m, need) == IF m >= need THEN m ELSE doubleCap(m + m, need)

growCap(cap, need, extra) == IF cap = 0 THEN extra ELSE doubleCap(cap, need)

capOf(h, sl) == IF sl.arr = 0 THEN 0 ELSE Len(h[sl.arr])

\* deepMerge, case reflect.Slice: dst.Set(reflect.AppendSlice(dst, src)), in
\* place when the capacity of dst allows, into a new array otherwise
mergeSliceRef(h, dst, src) ==
    IF src.len = 0 THEN [heap |-> h, val |-> dst]
    ELSE IF dst.len + src.len <= capOf(h, dst)
    THEN [heap |-> [h EXCEPT ![dst.arr] =
                      [i \in DOMAIN @ |->
                         IF i > dst.len /\ i <= dst.len + src.len
                         THEN h[src.arr][i - dst.len] ELSE @[i]]],
          val |-> [arr |-> dst.arr, len |-> dst.len + src.len]]
    ELSE [heap |-> Append(h,
                      [i \in 1..growCap(capOf(h, dst), dst.len + src.len, src.len) |->
                         IF i <= dst.len THEN h[dst.arr][i]
                         ELSE IF i <= dst.len + src.len THEN h[src.arr][i - dst.len]
                         ELSE ""]),
          val |-> [arr |-> Len(h) + 1, len |-> dst.len + src.len]]

mergoMergeRef(h, dst, src) ==
    Bind({ Bind({ Bind({
        [heap |-> r.heap,
         val |-> [Image |-> mergeScalar(dst.Image, src.Image), Labels |-> l.addr,
                  NodeSelector |-> n.addr, Requirements |-> r.val]]
        : r \in {mergeSliceRef(n.heap, dst.Requirements, src.Requirements)} })
        : n \in {mergeMapRef(l.heap, dst.NodeSelector, src.NodeSelector)} })
        : l \in {mergeMapRef(h, dst.Labels, src.Labels)} })

\* the loop body of mergeCommonConfig: copy configs[i], merge the copy, replace
\* the selector by a copy of the one of configs[i]
mergeStepRef(h, acc, config) ==
    Bind({ Bind({
        IF Cardinality(DOMAIN mapAt(h, config.NodeSelector)) # 0
        THEN Bind({ [heap |-> ns.heap, val |-> [m.val EXCEPT !.NodeSelector = ns.addr]]
                    : ns \in {deepCopyMap(m.heap, config.NodeSelector)} })
        ELSE m
        : m \in {mergoMergeRef(c.heap, acc, c.val)} })
        : c \in {deepCopyCommonConfig(h, config)} })

RECURSIVE mergeLoopRef(_, _, _, _)
mergeLoopRef(h, acc, cs, i) ==
    IF i > Len(cs) THEN [heap |-> h, val |-> acc]
    ELSE Bind({ mergeLoopRef(m.heap, m.val, cs, i + 1)
                : m \in {mergeStepRef(h, acc, cs[i])} })

mergeCommonConfigRef(h, cs) == mergeLoopRef(h, EmptyRefConfig, cs, 1)

\* resolveOverwrites: the loop over the jobs
RECURSIVE resolveJobsRef(_, _, _, _)
resolveJobsRef(h, cc, jobs, i) ==
    IF i > Len(jobs) THEN [heap |-> h, val |-> <<>>]
    ELSE Bind({ Bind({
            [heap |-> rest.heap, val |-> <<[CommonConfig |-> m.val]>> \o rest.val]
            : rest \in {resolveJobsRef(m.heap, cc, jobs, i + 1)} })
            : m \in {mergeCommonConfigRef(h, <<cc, jobs[i].CommonConfig>>)} })

resolveOverwritesRef(h, baseCommonConfig, jobsConfig) ==
    Bind({ Bind({
        [heap |-> js.heap, val |-> [CommonConfig |-> cc.val, Jobs |-> js.val]]
        : js \in {resolveJobsRef(cc.heap, cc.val, jobsConfig.Jobs, 1)} })
        : cc \in {mergeCommonConfigRef(h, <<baseCommonConfig, jobsConfig.CommonConfig>>)} })

(***************************************************************************)
(* The run on references: the base config and a catalog are read, two      *)
(* configs are merged, catalogs are read and resolved against the base,    *)
(* and the configs that came back are written through.                     *)
(***************************************************************************)
\* the chains without scalars and with one value per key and element:
\* only the storage matters here
HeapConfigsOfSize(n) ==
    {c \in ConfigsOfSize(n) :
        /\ c.Image = ""
        /\ \A k \in DOMAIN c.Labels : c.Labels[k] = "a"
        /\ \A k \in DOMAIN c.NodeSelector : c.NodeSelector[k] = "a"
        /\ \A i \in DOMAIN c.Requirements : c.Requirements[i] = "r1"}

MergeIdle ==
    /\ merged = EmptyConfig
    /\ nested = EmptyConfig
    /\ resolved = EmptyJobsConfig
    /\ mpc = "start"

AliasInit ==
    /\ ToolsIdle
    /\ MergeIdle
    /\ MatrixIdle
    /\ ValidateIdle
    /\ ConvertIdle
    /\ \E s \in SplitsOf(MaxHeapEntries) :
         \E a \in HeapConfigsOfSize(s[1]), b \in HeapConfigsOfSize(s[2]),
            c \in HeapConfigsOfSize(s[3]) :
            /\ configs = <<a, b, c>>
            /\ \E ra \in {unmarshalConfig(<<>>, a)} :
               \E rb \in {unmarshalConfig(ra.heap, b)} :
               \E rc \in {unmarshalConfig(rb.heap, c)} :
                   /\ heap = rc.heap
                   /\ refs = <<ra.val, rb.val, rc.val>>
    /\ outs = <<>>
    /\ mutations = 0

\* the value a config of refs was read from: the base, then repository and
\* job of every catalog
ReadFrom(i) == configs[IF i = 1 THEN 1 ELSE 2 + (i % 2)]

\* mergeCommonConfig(A, B) on the configs as read
MergeTwo ==
    /\ Len(outs) = 0
    /\ \E m \in {mergeCommonConfigRef(heap, <<refs[1], refs[2]>>)} :
           /\ heap' = m.heap
           /\ outs' = Append(outs, m.val)
    /\ UNCHANGED <<refs, mutations, mergeVars, matrixVars, validateVars, convertVars, toolVars>>

\* Client.ReadJobsConfig: the catalog is unmarshalled and resolved against a
\* copy of the base config
ReadJobsConfig ==
    /\ Len(refs) < 3 + 2 * MaxCatalogs
    /\ \E repo \in {unmarshalConfig(heap, configs[2])} :
       \E jobc \in {unmarshalConfig(repo.heap, configs[3])} :
       \E base \in {deepCopyCommonConfig(jobc.heap, refs[1])} :
       \E r \in {resolveOverwritesRef(base.heap, base.val,
                    [CommonConfig |-> repo.val, Jobs |-> <<[CommonConfig |-> jobc.val]>>])} :
           /\ heap' = r.heap
           /\ refs' = refs \o <<repo.val, jobc.val>>
           /\ outs' = outs \o <<r.val.CommonConfig, r.val.Jobs[1].CommonConfig>>
    /\ UNCHANGED <<mutations, mergeVars, matrixVars, validateVars, convertVars, toolVars>>

\* a write into a map of a returned config: m[k1] = "mut"
MutateMap ==
    /\ mutations < MaxMutations
    /\ \E o \in DOMAIN outs, f \in {"Labels", "NodeSelector"} :
          /\ outs[o][f] # 0
          /\ heap' = [heap EXCEPT ![outs[o][f]] =
                        [k \in DOMAIN @ \cup {"k1"} |-> IF k = "k1" THEN "mut" ELSE @[k]]]
    /\ mutations' = mutations + 1
    /\ UNCHANGED <<refs, outs, mergeVars, matrixVars, validateVars, convertVars, toolVars>>

\* a write into a slice of a returned config: s[0] = "mut"
MutateSlice ==
    /\ mutations < MaxMutations
    /\ \E o \in DOMAIN outs :
          /\ outs[o].Requirements.len > 0
          /\ heap' = [heap EXCEPT ![outs[o].Requirements.arr][1] = "mut"]
    /\ mutations' = mutations + 1
    /\ UNCHANGED <<refs, outs, mergeVars, matrixVars, validateVars, convertVars, toolVars>>

AliasNext == MergeTwo \/ ReadJobsConfig \/ MutateMap \/ MutateSlice

SpecAlias == AliasInit /\ [][AliasNext]_vars

\* every config as read still holds what it was read from
InputsIntact == \A i \in DOMAIN refs : marshalConfig(heap, refs[i]) = ReadFrom(i)

\* C5: the result of mergeCommonConfig(A, B) shares no map or slice storage
\* with A or B, and resolving catalogs leaves the base config alone: whatever
\* is written through a map or slice field of a returned config (NodeSelector
\* included), A, B, the base config and the catalogs as read are unchanged.
C5_NoSharedStorage == InputsIntact

\* the selector of a merge result was written, and the config it came from
\* declares that key
C5_Witness ==
    /\ mutations > 0
    /\ Len(outs) > 0
    /\ outs[1].NodeSelector # 0
    /\ heap[outs[1].NodeSelector]["k1"] = "mut"
    /\ "k1" \in DOMAIN configs[2].NodeSelector
    /\ "k1" \in DOMAIN mapAt(heap, refs[2].NodeSelector)

(***************************************************************************)
(* Matrix expansion.  A string is a sequence of tokens: a piece of plain   *)
(* text, or a substitution expression "$(ns.id)".  The job is serialized   *)
(* to YAML, the expressions are found in the text, the matrix ones are     *)
(* replaced by every combination of their values, and each text is parsed  *)
(* back into a job.                                                        *)
(***************************************************************************)
Lit(x) == [ns |-> "", id |-> x]
Var(ns, id) == [ns |-> ns, id |-> id]

Dims == {"a", "b"}
TemplateTokens == {Lit("x"), Var("params", "p")} \cup {Var("matrix", d) : d \in Dims}
Values == {<<Lit("1")>>, <<Lit("2")>>}

SeqsOfLen(S, n) == [1..n -> S]

Min(S) == CHOOSE x \in S : \A y \in S : x <= y

\* the list of strings a run of tokens makes when cut after the places of cuts
RECURSIVE Cut(_, _, _)
Cut(flat, cuts, i) ==
    IF i > Len(flat) THEN <<>>
    ELSE Bind({ <<SubSeq(flat, i, e)>> \o Cut(flat, cuts, e + 1) :
                e \in {Min({c \in cuts \cup {Len(flat)} : c >= i})} })

\* the job templates with a command of m tokens, no entry of it empty, and a
\* name of at most one token
JobsOfSize(m) ==
    UNION { { [Name |-> nm, Command |-> Cut(flat, cuts, 1)] :
                nm \in SeqsUpTo(TemplateTokens, 1),
                cuts \in SUBSET (1..(m - 1)) } :
            flat \in SeqsOfLen(TemplateTokens, m) }

\* the matrices of n values over their dimensions
MatricesOfSize(n) ==
    UNION { { [d \in ds |-> vs[d]] :
                vs \in { f \in [ds -> SeqsUpTo(Values, n)] :
                           LET RECURSIVE Total(_)
                               Total(S) == IF S = {} THEN 0
                                           ELSE LET d == CHOOSE x \in S : TRUE
                                                IN Len(f[d]) + Total(S \ {d})
                           IN Total(ds) = n } } :
            ds \in SUBSET Dims }

\* yaml.Marshal(job): the keys in alphabetical order, no empty field
Marshal(j) ==
    [i \in 1..Len(j.Command) |-> [key |-> "command", text |-> j.Command[i]]]
      \o (IF j.Name = <<>> THEN <<>> ELSE <<[key |-> "name", text |-> j.Name]>>)

\* yaml.Unmarshal(jobYaml, &Job{})
Unmarshal(y) ==
    [Name |-> IF \E i \in DOMAIN y : y[i].key = "name"
              THEN y[CHOOSE i \in DOMAIN y : y[i].key = "name"].text
              ELSE <<>>,
     Command |-> LET c == SelectSeq(y, LAMBDA l : l.key = "command")
                 IN [i \in 1..Len(c) |-> c[i].text]]

RECURSIVE Flatten(_)
Flatten(y) == IF y = <<>> THEN <<>> ELSE Head(y).text \o Flatten(Tail(y))

\* variableSubstitutionRegex.FindAllString(value, -1)
FindAllString(value) == SelectSeq(Flatten(value), LAMBDA t : t.ns # "")

RECURSIVE validateLoop_noSet(_, _, _, _)
validateLoop_noSet(expressions, i, result, set) ==
    IF i > Len(expressions) THEN result
    ELSE validateLoop_noSet(expressions, i + 1, Append(result, expressions[i]), set)

RECURSIVE validateLoop(_, _, _, _)
validateLoop(expressions, i, result, set) ==
    IF i > Len(expressions) THEN result
    ELSE IF expressions[i] \notin set
         THEN validateLoop(expressions, i + 1, Append(result, expressions[i]),
                           set \cup {expressions[i]})
         ELSE validateLoop(expressions, i + 1, result, set)

validateString(value) == validateLoop(FindAllString(value), 1, <<>>, {})

getVarSubstitutionExpressions(yamlStr) == validateString(yamlStr)

\* strings.ReplaceAll(str, "$(matrix."+expKey+")", expVal)
RECURSIVE replaceAll(_, _, _)
replaceAll(str, expKey, expVal) ==
    IF str = <<>> THEN <<>>
    ELSE (IF Head(str) = Var("matrix", expKey) THEN expVal ELSE <<Head(str)>>)
           \o replaceAll(Tail(str), expKey, expVal)

replace(str, expKey, expVal) ==
    [i \in DOMAIN str |-> [key |-> str[i].key, text |-> replaceAll(str[i].text, expKey, expVal)]]

RECURSIVE resolveCombinations(_, _, _, _, _)
RECURSIVE resolveValues_lastFirst(_, _, _, _, _, _)
resolveValues_lastFirst(combs, dest, start, m, res, i) ==
    IF i > Len(m[combs[start]]) THEN res
    ELSE Bind({ resolveValues_lastFirst(combs, dest, start, m, r, i + 1) :
                r \in {resolveCombinations(combs,
                           replace(dest, combs[start],
                                   m[combs[start]][Len(m[combs[start]]) + 1 - i]),
                           start + 1, m, res)} })

\* the loop over lst of resolveCombinations, from its i-th value on
RECURSIVE resolveValues(_, _, _, _, _, _)
resolveValues(combs, dest, start, m, res, i) ==
    IF i > Len(m[combs[start]]) THEN res
    ELSE Bind({ resolveValues(combs, dest, start, m, r, i + 1) :
                r \in {resolveCombinations(combs,
                           replace(dest, combs[start], m[combs[start]][i]),
                           start + 1, m, res)} })

resolveCombinations(combs, dest, start, m, res) ==
    IF start > Len(combs) THEN Append(res, dest)
    ELSE resolveValues(combs, dest, start, m, res, 1)

RECURSIVE collectCombs_skipUnknown(_, _, _, _)
collectCombs_skipUnknown(subsExps, i, m, combs) ==
    IF i > Len(subsExps) THEN [exited |-> FALSE, context |-> "", combs |-> combs]
    ELSE IF subsExps[i].ns = "matrix" /\ subsExps[i].id \in DOMAIN m
         THEN collectCombs_skipUnknown(subsExps, i + 1, m, Append(combs, subsExps[i].id))
         ELSE collectCombs_skipUnknown(subsExps, i + 1, m, combs)

\* the loop over subsExps of applyMatrix: the dimensions to combine, or the
\* exit at the first one the matrix does not configure
RECURSIVE collectCombs(_, _, _, _)
collectCombs(subsExps, i, m, combs) ==
    IF i > Len(subsExps) THEN [exited |-> FALSE, context |-> "", combs |-> combs]
    ELSE IF subsExps[i].ns = "matrix"
         THEN IF subsExps[i].id \in DOMAIN m
              THEN collectCombs(subsExps, i + 1, m, Append(combs, subsExps[i].id))
              ELSE [exited |-> TRUE, context |-> subsExps[i].id, combs |-> <<>>]
         ELSE collectCombs(subsExps, i + 1, m, combs)

applyMatrix(yamlStr, m) ==
    Bind({ IF Len(subsExps) = 0
           THEN [exited |-> FALSE, context |-> "", res |-> <<yamlStr>>]
           ELSE Bind({ IF c.exited
                       THEN [exited |-> TRUE, context |-> c.context, res |-> <<>>]
                       ELSE [exited |-> FALSE, context |-> "",
                             res |-> resolveCombinations(c.combs, yamlStr, 1, m, <<>>)] :
                       c \in {collectCombs(subsExps, 1, m, <<>>)} }) :
           subsExps \in {getVarSubstitutionExpressions(yamlStr)} })

applyMatrixJob(j, m) ==
    Bind({ [exited |-> e.exited, context |-> e.context,
            jobs |-> [i \in 1..Len(e.res) |-> Unmarshal(e.res[i])]] :
           e \in {applyMatrix(Marshal(j), m)} })

MatrixInit ==
    /\ ToolsIdle
    /\ MergeIdle
    /\ ValidateIdle
    /\ ConvertIdle
    /\ configs = <<>>
    /\ AliasIdle
    /\ \E n \in 0..MaxTokens : job \in JobsOfSize(n)
    /\ \E n \in 0..MaxValues : matrix \in MatricesOfSize(n)
    /\ expanded = NotExpanded
    /\ xpc = "start"

\* ConvertJobConfig: expandedJobs := applyMatrixJob(parentJob, jobsConfig.Matrix)
ApplyMatrixJob ==
    /\ xpc = "start"
    /\ expanded' = applyMatrixJob(job, matrix)
    /\ xpc' = "done"
    /\ UNCHANGED <<job, matrix, mergeVars, aliasVars, validateVars, convertVars, toolVars>>

MatrixNext == ApplyMatrixJob

SpecMatrix == MatrixInit /\ [][MatrixNext]_vars

\* the tokens of a job template, and the matrix dimensions it references
JobTokens(j) ==
    {j.Name[i] : i \in DOMAIN j.Name}
      \cup UNION { {j.Command[c][i] : i \in DOMAIN j.Command[c]} : c \in DOMAIN j.Command }

RefDims(j) == {t.id : t \in {u \in JobTokens(j) : u.ns = "matrix"}}

RECURSIVE Product(_, _)
Product(S, m) ==
    IF S = {} THEN 1
    ELSE LET d == CHOOSE x \in S : TRUE IN Len(m[d]) * Product(S \ {d}, m)

\* C6: for a template referencing k distinct matrix dimensions with value
\* lists of sizes n1..nk, applyMatrixJob returns exactly n1*...*nk jobs, each
\* dimension counted once however often its placeholder occurs; a template
\* referencing no matrix placeholder returns exactly one job, the original.
C6_Cardinality ==
    xpc = "done" =>
       /\ ~expanded.exited => Len(expanded.jobs) = Product(RefDims(job), matrix)
       /\ RefDims(job) = {} => ~expanded.exited /\ expanded.jobs = <<job>>

\* two dimensions, one of them referenced twice, two jobs
C6_Witness ==
    /\ xpc = "done"
    /\ ~expanded.exited
    /\ Cardinality(RefDims(job)) = 2
    /\ Len(FindAllString(Marshal(job))) = 3
    /\ Len(expanded.jobs) = 2

\* the tokens of the template in the order of its serialization: the
\* command, then the name
RECURSIVE Concat(_)
Concat(ss) == IF ss = <<>> THEN <<>> ELSE Head(ss) \o Concat(Tail(ss))

SerializedTokens(j) == Concat(j.Command) \o j.Name

FirstPos(d, flat) == Min({i \in DOMAIN flat : flat[i] = Var("matrix", d)})

\* the referenced dimensions by first appearance in the serialized template
DimsInOrder(j) ==
    CHOOSE ds \in SeqsOfLen(RefDims(j), Cardinality(RefDims(j))) :
        \A i, k \in DOMAIN ds :
            i < k => FirstPos(ds[i], SerializedTokens(j)) < FirstPos(ds[k], SerializedTokens(j))

\* the i-th tuple (from 0) in lexicographic order: the index, per dimension,
\* of the value taken
TupleAt(ds, m, i) ==
    [p \in DOMAIN ds |->
        ((i \div Product({ds[l] : l \in {q \in DOMAIN ds : q > p}}, m)) % Len(m[ds[p]])) + 1]

RECURSIVE Subst(_, _, _, _)
Subst(str, ds, m, tup) ==
    IF str = <<>> THEN <<>>
    ELSE (IF Head(str).ns = "matrix"
          THEN m[Head(str).id][tup[CHOOSE p \in DOMAIN ds : ds[p] = Head(str).id]]
          ELSE <<Head(str)>>) \o Subst(Tail(str), ds, m, tup)

JobAt(j, ds, m, tup) ==
    [Name |-> Subst(j.Name, ds, m, tup),
     Command |-> [c \in DOMAIN j.Command |-> Subst(j.Command[c], ds, m, tup)]]

\* C7: the expanded jobs come in the lexicographic order of the value
\* tuples, the dimensions ordered by the first appearance of their
\* placeholder in the serialized template (the first one varies slowest) and
\* the values of a dimension in the order of its list; the list is a function
\* of the template and the matrix.
C7_LexicographicOrder ==
    xpc = "done" /\ ~expanded.exited =>
        expanded.jobs =
            [i \in 1..Product(RefDims(job), matrix) |->
                JobAt(job, DimsInOrder(job), matrix,
                      TupleAt(DimsInOrder(job), matrix, i - 1))]

\* the name references a and the command b, both of two values that differ:
\* b, serialized first, varies slowest
C7_Witness ==
    /\ xpc = "done"
    /\ ~expanded.exited
    /\ job.Name = <<Var("matrix", "a")>>
    /\ job.Command = <<<<Lit("x"), Var("matrix", "b")>>>>
    /\ DOMAIN matrix = {"a", "b"}
    /\ matrix["a"] = <<<<Lit("2")>>, <<Lit("1")>>>>
    /\ matrix["b"] = <<<<Lit("1")>>, <<Lit("2")>>>>
    /\ Len(expanded.jobs) = 4
    /\ expanded.jobs[2] = [Name |-> <<Lit("1")>>, Command |-> <<<<Lit("x"), Lit("1")>>>>]
    /\ expanded.jobs[3] = [Name |-> <<Lit("2")>>, Command |-> <<<<Lit("x"), Lit("2")>>>>]

\* the referenced dimensions the matrix does not configure
UnknownDims(j, m) == RefDims(j) \ DOMAIN m

\* C8: a template with a placeholder for a dimension that is not a key of the
\* matrix ends expansion in a fatal error and yields no job, whatever other
\* dimensions it references; the error names the first, by appearance in the
\* serialized template, of the dimensions the matrix lacks.
C8_UnknownDimensionFatal ==
    xpc = "done" =>
       /\ expanded.exited <=> UnknownDims(job, matrix) # {}
       /\ expanded.exited =>
             /\ expanded.jobs = <<>>
             /\ expanded.context \in UnknownDims(job, matrix)
             /\ \A d \in UnknownDims(job, matrix) :
                   FirstPos(expanded.context, SerializedTokens(job))
                     <= FirstPos(d, SerializedTokens(job))

\* a known dimension is referenced first, an unknown one after it
C8_Witness ==
    /\ xpc = "done"
    /\ expanded.exited
    /\ expanded.context = "b"
    /\ DOMAIN matrix = {"a"}
    /\ Len(matrix["a"]) = 2
    /\ job.Command = <<<<Var("matrix", "a"), Var("matrix", "b")>>>>

\* C8 as stated: the error names every dimension the matrix lacks
C8_NamesEveryUnknown ==
    xpc = "done" =>
        \A d \in UnknownDims(job, matrix) :
            expanded.exited /\ expanded.jobs = <<>> /\ expanded.context = d

(***************************************************************************)
(* Validation.  The strings the validator looks into (a job name, a cron   *)
(* string, an interval, an extra repository) are sequences of pieces of    *)
(* text; an error is the content of its message.                           *)
(***************************************************************************)
ArchAMD64 == "amd64"
ArchARM64 == "arm64"
TypePostsubmit == "postsubmit"
TypePresubmit == "presubmit"
TypePeriodic == "periodic"

\* strings.Contains(s, c), c one piece
Contains(s, c) == \E i \in DOMAIN s : s[i] = c

\* strings.Split(s, sep), sep one piece
RECURSIVE Split(_, _)
Split(s, sep) ==
    IF ~Contains(s, sep) THEN <<s>>
    ELSE Bind({ <<SubSeq(s, 1, i - 1)>> \o Split(SubSeq(s, i + 1, Len(s)), sep) :
                i \in {Min({k \in DOMAIN s : s[k] = sep})} })

\* strings.Fields(s)
Fields(s) == SelectSeq(Split(s, " "), LAMBDA f : f # <<>>)

\* cron.Parse(spec) gives no error: a descriptor, or five or six fields
cronParse(spec) ==
    IF spec[1] \in {"@daily", "@z"}
    THEN spec = <<"@daily">>
    ELSE /\ Len(Fields(spec)) \in {5, 6}
         /\ \A i \in DOMAIN Fields(spec) : Fields(spec)[i] = <<"*">>

\* time.ParseDuration(s) gives no error: numbers, each followed by a unit
RECURSIVE parseDurationFrom(_, _)
parseDurationFrom(s, i) ==
    IF i > Len(s) THEN TRUE
    ELSE IF s[i] # "1" THEN FALSE
    ELSE \E u \in {Min({k \in (i + 1)..(Len(s) + 1) : k > Len(s) \/ s[k] # "1"})} :
            /\ u <= Len(s)
            /\ \E e \in {Min({k \in (u + 1)..(Len(s) + 1) : k > Len(s) \/ s[k] = "1"})} :
                  /\ SubSeq(s, u, e - 1) \in {<<"h">>, <<"m">>}
                  /\ parseDurationFrom(s, e)

ParseDuration(s) == s # <<>> /\ parseDurationFrom(s, 1)

\* the content of an error message
Msg(text, name, value) == [text |-> text, description |-> "", job |-> name, value |-> value]

\* the message of validate
NotValid(input, description) ==
    [text |-> "is not a valid", description |-> description, job |-> <<>>, value |-> <<input>>]

multierrorAppend_keepFirst(err, e) == IF err = <<>> THEN <<e>> ELSE err

multierrorAppend(err, e) == Append(err, e)

\* validate(input, options, description) together with the Append of its error
validate(err, input, options, description) ==
    IF input \notin options
    THEN multierrorAppend(err, NotValid(input, description))
    ELSE err

checkName(err, org, j) ==
    IF (org = "istio" \/ org = "istio-private") /\ Contains(j.Name, "_")
    THEN multierrorAppend(err, Msg("job may not contain '_'", j.Name, <<>>))
    ELSE err

checkImage(err, j) ==
    IF j.Image = ""
    THEN multierrorAppend(err, Msg("image must be set for job", j.Name, <<>>))
    ELSE err

checkResources(err, presets, j) ==
    IF j.Resources # "" /\ j.Resources \notin presets
    THEN multierrorAppend(err, Msg("has nonexistant resource", j.Name, <<j.Resources>>))
    ELSE err

checkPeriodic_cronOnly(err, j) ==
    IF TypePeriodic \in {j.Types[i] : i \in DOMAIN j.Types}
    THEN IF j.Cron # <<>> /\ j.Interval # <<>>
         THEN multierrorAppend(err, Msg("cron and interval cannot be both set", j.Name, <<>>))
         ELSE IF j.Cron = <<>> /\ j.Interval = <<>>
         THEN multierrorAppend(err, Msg("cron and interval cannot be both empty", j.Name, <<>>))
         ELSE IF j.Cron # <<>>
         THEN IF ~cronParse(j.Cron)
              THEN multierrorAppend(err, Msg("invalid cron string", j.Name, j.Cron))
              ELSE err
         ELSE err
    ELSE err

checkPeriodic(err, j) ==
    IF TypePeriodic \in {j.Types[i] : i \in DOMAIN j.Types}
    THEN IF j.Cron # <<>> /\ j.Interval # <<>>
         THEN multierrorAppend(err, Msg("cron and interval cannot be both set", j.Name, <<>>))
         ELSE IF j.Cron = <<>> /\ j.Interval = <<>>
         THEN multierrorAppend(err, Msg("cron and interval cannot be both empty", j.Name, <<>>))
         ELSE IF j.Cron # <<>>
         THEN IF ~cronParse(j.Cron)
              THEN multierrorAppend(err, Msg("invalid cron string", j.Name, j.Cron))
              ELSE err
         ELSE IF j.Interval # <<>>
         THEN IF ~ParseDuration(j.Interval)
              THEN multierrorAppend(err, Msg("cannot parse duration", j.Name, j.Interval))
              ELSE err
         ELSE err
    ELSE err

\* a loop of validate over the entries of a list
RECURSIVE checkEach(_, _, _, _, _)
checkEach(err, list, i, options, description) ==
    IF i > Len(list) THEN err
    ELSE checkEach(validate(err, list[i], options, description), list, i + 1,
                   options, description)

RECURSIVE checkRepos(_, _, _)
checkRepos(err, repos, i) ==
    IF i > Len(repos) THEN err
    ELSE checkRepos(IF Len(Split(repos[i], "/")) # 2
                    THEN multierrorAppend(err, Msg("not valid, should take form org/repo", <<>>, repos[i]))
                    ELSE err,
                    repos, i + 1)

\* the body of the loop over jobsConfig.Jobs
checkJob(err, jobsConfig, j) ==
    checkRepos(
      checkEach(
        checkEach(
          checkPeriodic(
            checkResources(
              checkImage(checkName(err, jobsConfig.Org, j), j),
              jobsConfig.ResourcePresets, j),
            j),
          j.Types, 1, {TypePostsubmit, TypePresubmit, TypePeriodic}, "type"),
        j.Architectures, 1, {ArchAMD64, ArchARM64, TypePeriodic}, "architectures"),
      j.Repos, 1)

RECURSIVE checkJobs(_, _, _)
checkJobs(err, jobsConfig, i) ==
    IF i > Len(jobsConfig.Jobs) THEN err
    ELSE checkJobs(checkJob(err, jobsConfig, jobsConfig.Jobs[i]), jobsConfig, i + 1)

checkOrg(err, jobsConfig) ==
    IF jobsConfig.Org = "" THEN multierrorAppend(err, Msg("org must be set", <<>>, <<>>)) ELSE err

checkRepo(err, jobsConfig) ==
    IF jobsConfig.Repo = "" THEN multierrorAppend(err, Msg("repo must be set", <<>>, <<>>)) ELSE err

validateJobsConfig(jobsConfig) ==
    checkJobs(checkRepo(checkOrg(<<>>, jobsConfig), jobsConfig), jobsConfig, 1)

\* ---- the catalogs validated
Spaced(n, f) == [i \in 1..(2 * n - 1) |-> IF i % 2 = 1 THEN f ELSE " "]

Names == {<<"n">>, <<"n", "_", "m">>}
Images == {"img", ""}
ResourceNames == {"", "default", "big"}
CronStrings ==
    {<<>>, Spaced(5, "*"), Spaced(6, "*"), Spaced(4, "*"),
     [Spaced(5, "*") EXCEPT ![5] = "z"], <<"@daily">>}
IntervalStrings == {<<>>, <<"1", "h">>, <<"1">>, <<"1", "x">>}
TypeNames == {TypePresubmit, TypePeriodic, "nightly"}
ArchNames == {ArchAMD64, TypePeriodic, "sparc"}
RepoStrings == {<<"o", "/", "r">>, <<"o">>, <<"o", "/", "r", "/", "x">>}
Orgs == {"acme", "", "istio"}
Repos == {"r", ""}

Deviation(b) == IF b THEN 1 ELSE 0

ScalarDeviations(j) ==
    Deviation(j.Name # <<"n">>) + Deviation(j.Image # "img") + Deviation(j.Resources # "")
      + Deviation(j.Cron # <<>>) + Deviation(j.Interval # <<>>)

ScalarsOfJob(w) ==
    {j \in [Name : Names, Image : Images, Resources : ResourceNames,
            Cron : CronStrings, Interval : IntervalStrings] : ScalarDeviations(j) = w}

JobsOfDeviation(w) ==
    UNION { { [Name |-> sc.Name, Image |-> sc.Image, Resources |-> sc.Resources,
               Cron |-> sc.Cron, Interval |-> sc.Interval,
               Types |-> t, Architectures |-> a, Repos |-> r] :
                sc \in ScalarsOfJob(sp[1]), t \in SeqsOfLen(TypeNames, sp[2]),
                a \in SeqsOfLen(ArchNames, sp[3]), r \in SeqsOfLen(RepoStrings, sp[4]) } :
            sp \in {q \in [1..4 -> 0..w] : q[1] + q[2] + q[3] + q[4] = w} }

\* the jobs by the number of their deviations
JobsByDeviation == [w \in 0..MaxDeviations |-> JobsOfDeviation(w)]

JobDeviations(j) ==
    ScalarDeviations(j) + Len(j.Types) + Len(j.Architectures) + Len(j.Repos)

RECURSIVE SumOver(_, _)
SumOver(js, i) == IF i > Len(js) THEN 0 ELSE JobDeviations(js[i]) + SumOver(js, i + 1)

CatalogDeviations(c) ==
    Deviation(c.Org # "acme") + Deviation(c.Repo # "r")
      + Deviation(c.ResourcePresets # {"default"}) + SumOver(c.Jobs, 1)

\* the catalog before the first of its jobs is read
ValidateInit ==
    /\ ToolsIdle
    /\ ConvertIdle
    /\ MergeIdle
    /\ configs = <<>>
    /\ AliasIdle
    /\ MatrixIdle
    /\ catalog \in [Org : Orgs, Repo : Repos, ResourcePresets : {{"default"}, {}}, Jobs : {<<>>}]
    /\ errs = <<>>
    /\ vpc = "start"

\* Client.ReadJobsConfig: one more job of the catalog file
ReadJob ==
    /\ vpc = "start"
    /\ Len(catalog.Jobs) < MaxJobs
    /\ \E w \in 0..(MaxDeviations - CatalogDeviations(catalog)) :
       \E j \in JobsByDeviation[w] :
           catalog' = [catalog EXCEPT !.Jobs = Append(@, j)]
    /\ UNCHANGED <<errs, vpc, mergeVars, aliasVars, matrixVars, convertVars, toolVars>>

\* ConvertJobConfig: if err := validateJobsConfig(fileName, jobsConfig); err != nil
ValidateJobsConfig ==
    /\ vpc = "start"
    /\ errs' = validateJobsConfig(catalog)
    /\ vpc' = "done"
    /\ UNCHANGED <<catalog, mergeVars, aliasVars, matrixVars, convertVars, toolVars>>

ValidateNext == ReadJob \/ ValidateJobsConfig

SpecValidate == ValidateInit /\ [][ValidateNext]_vars

\* a periodic job declares exactly one of cron and interval, and it parses
PeriodicOK(j) ==
    /\ (j.Cron # <<>>) # (j.Interval # <<>>)
    /\ j.Cron # <<>> => cronParse(j.Cron)
    /\ j.Interval # <<>> => ParseDuration(j.Interval)

IsPeriodic(j) == \E i \in DOMAIN j.Types : j.Types[i] = TypePeriodic

\* the places of a catalog a rule of the validator speaks of: the rule, the
\* job and the entry of the job's list
RulePlaces(c) ==
    {<<"org", 0, 0>>, <<"repo", 0, 0>>}
      \cup {<<r, i, 0>> : r \in {"name", "image", "resources", "periodic"}, i \in DOMAIN c.Jobs}
      \cup UNION { {<<"type", i, k>> : k \in DOMAIN c.Jobs[i].Types} : i \in DOMAIN c.Jobs }
      \cup UNION { {<<"arch", i, k>> : k \in DOMAIN c.Jobs[i].Architectures} : i \in DOMAIN c.Jobs }
      \cup UNION { {<<"repos", i, k>> : k \in DOMAIN c.Jobs[i].Repos} : i \in DOMAIN c.Jobs }

CountOf(s, x) == Cardinality({i \in DOMAIN s : s[i] = x})

Violated(c, p) ==
    CASE p[1] = "org" -> c.Org = ""
      [] p[1] = "repo" -> c.Repo = ""
      [] p[1] = "name" -> c.Org \in {"istio", "istio-private"} /\ CountOf(c.Jobs[p[2]].Name, "_") > 0
      [] p[1] = "image" -> c.Jobs[p[2]].Image = ""
      [] p[1] = "resources" ->
            c.Jobs[p[2]].Resources # "" /\ c.Jobs[p[2]].Resources \notin c.ResourcePresets
      [] p[1] = "periodic" -> IsPeriodic(c.Jobs[p[2]]) /\ ~PeriodicOK(c.Jobs[p[2]])
      [] p[1] = "type" ->
            c.Jobs[p[2]].Types[p[3]] \notin {TypePresubmit, TypePostsubmit, TypePeriodic}
      [] p[1] = "arch" ->
            c.Jobs[p[2]].Architectures[p[3]] \notin {ArchAMD64, ArchARM64, TypePeriodic}
      [] p[1] = "repos" -> CountOf(c.Jobs[p[2]].Repos[p[3]], "/") # 1

Violations(c) == {p \in RulePlaces(c) : Violated(c, p)}

\* what the message of a violation says
Reported(c, p) ==
    CASE p[1] = "org" -> Msg("org must be set", <<>>, <<>>)
      [] p[1] = "repo" -> Msg("repo must be set", <<>>, <<>>)
      [] p[1] = "name" -> Msg("job may not contain '_'", c.Jobs[p[2]].Name, <<>>)
      [] p[1] = "image" -> Msg("image must be set for job", c.Jobs[p[2]].Name, <<>>)
      [] p[1] = "resources" ->
            Msg("has nonexistant resource", c.Jobs[p[2]].Name, <<c.Jobs[p[2]].Resources>>)
      [] p[1] = "periodic" ->
            LET j == c.Jobs[p[2]]
            IN IF j.Cron # <<>> /\ j.Interval # <<>>
               THEN Msg("cron and interval cannot be both set", j.Name, <<>>)
               ELSE IF j.Cron = <<>> /\ j.Interval = <<>>
               THEN Msg("cron and interval cannot be both empty", j.Name, <<>>)
               ELSE IF j.Cron # <<>>
               THEN Msg("invalid cron string", j.Name, j.Cron)
               ELSE Msg("cannot parse duration", j.Name, j.Interval)
      [] p[1] = "type" -> NotValid(c.Jobs[p[2]].Types[p[3]], "type")
      [] p[1] = "arch" ->
            NotValid(c.Jobs[p[2]].Architectures[p[3]], "architectures")
      [] p[1] = "repos" ->
            Msg("not valid, should take form org/repo", <<>>, c.Jobs[p[2]].Repos[p[3]])

PeriodicErrors ==
    {"cron and interval cannot be both set", "cron and interval cannot be both empty",
     "invalid cron string", "cannot parse duration"}

\* C10: a job whose types include periodic passes validation only if exactly
\* one of cron and interval is set and the one that is set parses: both set,
\* neither set, a cron that does not parse and an interval that does not
\* parse are each rejected, with an error saying so.
C10_PeriodicValidity ==
    vpc = "done" =>
       /\ errs = <<>> =>
             \A i \in DOMAIN catalog.Jobs :
                IsPeriodic(catalog.Jobs[i]) => PeriodicOK(catalog.Jobs[i])
       /\ \A i \in DOMAIN catalog.Jobs :
             IsPeriodic(catalog.Jobs[i]) /\ ~PeriodicOK(catalog.Jobs[i]) =>
                \E k \in DOMAIN errs :
                    /\ errs[k].text \in PeriodicErrors
                    /\ errs[k] = Reported(catalog, <<"periodic", i, 0>>)
       /\ Cardinality({k \in DOMAIN errs : errs[k].text \in PeriodicErrors})
            = Cardinality({i \in DOMAIN catalog.Jobs :
                             IsPeriodic(catalog.Jobs[i]) /\ ~PeriodicOK(catalog.Jobs[i])})

\* a periodic job whose interval lacks its unit is rejected for that alone
C10_Witness ==
    /\ vpc = "done"
    /\ Len(catalog.Jobs) = 1
    /\ catalog.Jobs[1].Types = <<TypePeriodic>>
    /\ catalog.Jobs[1].Cron = <<>>
    /\ catalog.Jobs[1].Interval = <<"1">>
    /\ errs = <<Msg("cannot parse duration", <<"n">>, <<"1">>)>>

(***************************************************************************)
(* Materialization.  ConvertJobConfig validates the catalog and turns each *)
(* of its jobs into a presubmit, a postsubmit and a periodic, as its types *)
(* say.  A name is a sequence of characters; in the other strings the      *)
(* characters the code looks for ("/", "@", ".") are pieces of their own.  *)
(***************************************************************************)
maxJobNameLength == 63

ModifierHidden == "hidden"
ModifierPresubmitOptional == "presubmit_optional"
ModifierPresubmitSkipped == "presubmit_skipped"

TestGridDashboard == "testgrid-dashboards"
TestGridAlertEmail == "testgrid-alert-email"
TestGridNumFailures == "testgrid-num-failures-to-alert"

Master == <<"m", "a", "s", "t", "e", "r">>
PostsubmitSuffix == <<"_", "p", "o", "s", "t", "s", "u", "b", "m", "i", "t">>
PeriodicSuffix == <<"_", "p", "e", "r", "i", "o", "d", "i", "c">>

\* a field of the catalog that is one piece of text, as a string
Str(a) == IF a = "" THEN <<>> ELSE <<a>>

\* strings.LastIndex(s, c) + 1, c one piece
LastIndex(s, c) == IF Contains(s, c) THEN Max({i \in DOMAIN s : s[i] = c}) ELSE 0

\* strings.TrimSuffix(s, suffix)
TrimSuffix(s, suffix) ==
    IF Len(s) >= Len(suffix) /\ SubSeq(s, Len(s) - Len(suffix) + 1, Len(s)) = suffix
    THEN SubSeq(s, 1, Len(s) - Len(suffix))
    ELSE s

\* the body of the loop of createExtraRefs
extraRef(extraRepo, defaultBranch, pathAliases) ==
    Bind({ Bind({ [Org |-> org,
                   Repo |-> SubSeq(repobranch[1], LastIndex(repobranch[1], "/") + 1,
                                   Len(repobranch[1])),
                   BaseRef |-> IF Len(repobranch) > 1 THEN repobranch[2] ELSE defaultBranch,
                   PathAlias |-> IF org \in DOMAIN pathAliases
                                 THEN pathAliases[org] \o <<"/">>
                                        \o SubSeq(repobranch[1], LastIndex(repobranch[1], "/") + 1,
                                                  Len(repobranch[1]))
                                 ELSE <<>>,
                   CloneURI |-> IF Contains(org, ".")
                                THEN <<"https://">> \o repobranch[1]
                                ELSE <<>>] :
                  org \in {TrimSuffix(repobranch[1],
                                      <<"/">> \o SubSeq(repobranch[1],
                                                        LastIndex(repobranch[1], "/") + 1,
                                                        Len(repobranch[1])))} }) :
           repobranch \in {Split(extraRepo, "@")} })

createExtraRefs_reversed(extraRepos, defaultBranch, pathAliases) ==
    [i \in DOMAIN extraRepos |->
        extraRef(extraRepos[Len(extraRepos) + 1 - i], defaultBranch, pathAliases)]

createExtraRefs(extraRepos, defaultBranch, pathAliases) ==
    [i \in DOMAIN extraRepos |-> extraRef(extraRepos[i], defaultBranch, pathAliases)]

NoJobBase == [Name |-> <<>>, ExtraRefs |-> <<>>, Annotations |-> EmptyMap]

createJobBase_limitOff(c, baseConfig, j, name, br) ==
    [err |-> <<>>,
     jb |-> [Name |-> name,
             ExtraRefs |-> createExtraRefs(j.Repos, br, baseConfig.PathAliases),
             Annotations |-> j.Annotations]]

createJobBase(c, baseConfig, j, name, br) ==
    IF Len(name) > maxJobNameLength /\ ~c.LongJobNamesAllowed
    THEN [err |-> <<Msg("job name exceeds character limit", name, <<>>)>>, jb |-> NoJobBase]
    ELSE [err |-> <<>>,
          jb |-> [Name |-> name,
                  ExtraRefs |-> createExtraRefs(j.Repos, br, baseConfig.PathAliases),
                  Annotations |-> j.Annotations]]

\* mergo.Merge(&dst, src) on maps, without overwrite: a key of src is taken
\* where dst has no value for it or an empty one
mergeMapKeep(dst, src) ==
    [k \in DOMAIN dst \cup DOMAIN src |->
        IF k \in DOMAIN src /\ (k \notin DOMAIN dst \/ dst[k] = <<>>)
        THEN src[k]
        ELSE dst[k]]

\* fmt.Sprintf("%s_%s", job.Name, jobsConfig.Repo), the branch unless master
baseName_noBranch(j, jobsConfig, br) == j.Name \o <<"_">> \o Str(jobsConfig.Repo)

\* name := fmt.Sprintf("%s_%s", job.Name, jobsConfig.Repo), and the branch
baseName(j, jobsConfig, br) ==
    j.Name \o <<"_">> \o Str(jobsConfig.Repo)
      \o (IF br # Master THEN <<"_">> \o br ELSE <<>>)

testgridJobPrefix(jobsConfig, br) ==
    Str(jobsConfig.Org) \o (IF br # Master THEN <<"_">> \o br ELSE <<>>)
      \o <<"_">> \o Str(jobsConfig.Repo)

RECURSIVE applyModifiersPresubmit_skippedIgnored(_, _, _)
applyModifiersPresubmit_skippedIgnored(presubmit, jobModifiers, i) ==
    IF i > Len(jobModifiers) THEN presubmit
    ELSE applyModifiersPresubmit_skippedIgnored(
            IF jobModifiers[i] = ModifierPresubmitOptional
            THEN [presubmit EXCEPT !.Optional = TRUE]
            ELSE IF jobModifiers[i] = ModifierHidden
            THEN [presubmit EXCEPT !.SkipReport = TRUE, !.ReporterConfig = "slack: no states"]
            ELSE presubmit,
            jobModifiers, i + 1)

\* applyModifiersPresubmit, from the i-th modifier on
RECURSIVE applyModifiersPresubmit(_, _, _)
applyModifiersPresubmit(presubmit, jobModifiers, i) ==
    IF i > Len(jobModifiers) THEN presubmit
    ELSE applyModifiersPresubmit(
            IF jobModifiers[i] = ModifierPresubmitOptional
            THEN [presubmit EXCEPT !.Optional = TRUE]
            ELSE IF jobModifiers[i] = ModifierHidden
            THEN [presubmit EXCEPT !.SkipReport = TRUE, !.ReporterConfig = "slack: no states"]
            ELSE IF jobModifiers[i] = ModifierPresubmitSkipped
            THEN [presubmit EXCEPT !.AlwaysRun = FALSE]
            ELSE presubmit,
            jobModifiers, i + 1)

applyModifiersPostsubmit_ignored(postsubmit, jobModifiers, i) == postsubmit

\* applyModifiersPostsubmit, from the i-th modifier on
RECURSIVE applyModifiersPostsubmit(_, _, _)
applyModifiersPostsubmit(postsubmit, jobModifiers, i) ==
    IF i > Len(jobModifiers) THEN postsubmit
    ELSE applyModifiersPostsubmit(
            IF jobModifiers[i] = ModifierPresubmitOptional
            THEN postsubmit
            ELSE IF jobModifiers[i] = ModifierHidden
            THEN [postsubmit EXCEPT !.SkipReport = TRUE, !.ReporterConfig = "slack: no report"]
            ELSE postsubmit,
            jobModifiers, i + 1)

SetOf(list) == {list[i] : i \in DOMAIN list}

applyRequirements_keepBlocked(jb, requirements, blockedRequirements, presetMap) ==
    IF \/ \E i \in DOMAIN requirements : requirements[i] \notin DOMAIN presetMap
       \/ \E i \in DOMAIN blockedRequirements : blockedRequirements[i] \notin DOMAIN presetMap
    THEN [exited |-> TRUE, jb |-> jb]
    ELSE [exited |-> FALSE, jb |-> [jb EXCEPT !.Applied = requirements]]

\* applyRequirements: the exit on a name without preset, else the presets
\* handed to resolveRequirements, by name
applyRequirements(jb, requirements, blockedRequirements, presetMap) ==
    IF \/ \E i \in DOMAIN requirements : requirements[i] \notin DOMAIN presetMap
       \/ \E i \in DOMAIN blockedRequirements : blockedRequirements[i] \notin DOMAIN presetMap
    THEN [exited |-> TRUE, jb |-> jb]
    ELSE [exited |-> FALSE,
          jb |-> [jb EXCEPT !.Applied =
                     SelectSeq(requirements, LAMBDA r : r \notin SetOf(blockedRequirements))]]

\* applyMatrixJob on a job without substitution expressions: the text comes
\* back as it is and parses to the job
expandedJobsOf(parentJob) == <<parentJob>>

Selects_listed(j, type) == type \in SetOf(j.Types)

\* len(job.Types) == 0 || sets.NewString(job.Types...).Has(type)
Selects(j, type) == Len(j.Types) = 0 \/ type \in SetOf(j.Types)

pathAliasOf(baseConfig, jobsConfig) ==
    IF Str(jobsConfig.Org) \in DOMAIN baseConfig.PathAliases
    THEN baseConfig.PathAliases[Str(jobsConfig.Org)] \o <<"/">> \o Str(jobsConfig.Repo)
    ELSE <<>>

\* the annotations after the merge of the testgrid ones
withTestgrid(annotations, testgridConfig, dashboard, alerts) ==
    IF testgridConfig.Enabled
    THEN mergeMapKeep(annotations,
            IF alerts
            THEN [k \in {TestGridDashboard, TestGridAlertEmail, TestGridNumFailures} |->
                    IF k = TestGridDashboard THEN dashboard
                    ELSE IF k = TestGridAlertEmail THEN testgridConfig.AlertEmail
                    ELSE testgridConfig.NumFailuresToAlert]
            ELSE [k \in {TestGridDashboard} |-> dashboard])
    ELSE annotations

\* what a kind of job came to: the job, the error of createJobBase, or the exit
Made(status, err, item) == [status |-> status, err |-> err, item |-> item]

\* the presubmit of a job
presubmitOf(c, jobsConfig, j, br) ==
    Bind({ IF base.err # <<>> THEN Made("err", base.err, base.jb)
           ELSE Bind({ Made(IF r.exited THEN "exit" ELSE "run", <<>>, r.jb) :
                r \in {applyRequirements(
                         applyModifiersPresubmit(
                           [Name |-> base.jb.Name,
                            ExtraRefs |-> base.jb.ExtraRefs,
                            Annotations |-> withTestgrid(base.jb.Annotations,
                                               c.BaseConfig.TestgridConfig,
                                               testgridJobPrefix(jobsConfig, br), FALSE),
                            AlwaysRun |-> j.Regex = "",
                            RunIfChanged |-> j.Regex,
                            Branches |-> <<<<"^">> \o br \o <<"$">>>>,
                            PathAlias |-> pathAliasOf(c.BaseConfig, jobsConfig),
                            Optional |-> FALSE,
                            SkipReport |-> FALSE,
                            ReporterConfig |-> "",
                            Applied |-> <<>>],
                           j.Modifiers, 1),
                         j.Requirements, j.ExcludedRequirements,
                         jobsConfig.RequirementPresets)} }) :
           base \in {createJobBase(c, c.BaseConfig, j, baseName(j, jobsConfig, br), br)} })

\* the postsubmit of a job
postsubmitOf(c, jobsConfig, j, br) ==
    Bind({ IF base.err # <<>> THEN Made("err", base.err, base.jb)
           ELSE Bind({ Made(IF r.exited THEN "exit" ELSE "run", <<>>, r.jb) :
                r \in {applyRequirements(
                         applyModifiersPostsubmit(
                           [Name |-> base.jb.Name,
                            ExtraRefs |-> base.jb.ExtraRefs,
                            Annotations |-> withTestgrid(base.jb.Annotations,
                                               c.BaseConfig.TestgridConfig,
                                               testgridJobPrefix(jobsConfig, br)
                                                 \o PostsubmitSuffix, TRUE),
                            RunIfChanged |-> j.Regex,
                            Branches |-> <<<<"^">> \o br \o <<"$">>>>,
                            PathAlias |-> pathAliasOf(c.BaseConfig, jobsConfig),
                            SkipReport |-> FALSE,
                            ReporterConfig |-> "",
                            Applied |-> <<>>],
                           j.Modifiers, 1),
                         j.Requirements, j.ExcludedRequirements,
                         jobsConfig.RequirementPresets)} }) :
           base \in {createJobBase(c, c.BaseConfig, j,
                                   baseName(j, jobsConfig, br) \o PostsubmitSuffix, br)} })

\* the loop over job.Requirements that takes the cron of a preset
RECURSIVE cronOverride(_, _, _, _)
cronOverride(cron, requirements, i, presetMap) ==
    IF i > Len(requirements) THEN cron
    ELSE cronOverride(IF /\ requirements[i] \in DOMAIN presetMap
                         /\ presetMap[requirements[i]].Cron # <<>>
                      THEN presetMap[requirements[i]].Cron
                      ELSE cron,
                      requirements, i + 1, presetMap)

periodicRepos_declaredOnly(j, jobsConfig) == j.Repos

\* job.Repos = append([]string{jobsConfig.Org + "/" + jobsConfig.Repo}, job.Repos...)
periodicRepos(j, jobsConfig) ==
    <<Str(jobsConfig.Org) \o <<"/">> \o Str(jobsConfig.Repo)>> \o j.Repos

\* the periodic of a job
periodicOf(c, jobsConfig, j, br) ==
    Bind({ IF base.err # <<>> THEN Made("err", base.err, base.jb)
           ELSE Bind({ Made(IF r.exited THEN "exit" ELSE "run", <<>>, r.jb) :
                r \in {applyRequirements(
                           [Name |-> base.jb.Name,
                            ExtraRefs |-> base.jb.ExtraRefs,
                            Annotations |-> withTestgrid(base.jb.Annotations,
                                               c.BaseConfig.TestgridConfig,
                                               testgridJobPrefix(jobsConfig, br)
                                                 \o PeriodicSuffix, TRUE),
                            Interval |-> j.Interval,
                            Cron |-> cronOverride(j.Cron, j.Requirements, 1,
                                                  jobsConfig.RequirementPresets),
                            Applied |-> <<>>],
                         j.Requirements, j.ExcludedRequirements,
                         jobsConfig.RequirementPresets)} }) :
           base \in {createJobBase(c, c.BaseConfig,
                                   [j EXCEPT !.Repos = periodicRepos(j, jobsConfig)],
                                   baseName(j, jobsConfig, br) \o PeriodicSuffix, br)} })

\* the jobs made so far, the job's annotation map, the output as of the last
\* parent job, and whether the conversion still runs
Converting == [presubmits |-> <<>>, postsubmits |-> <<>>, periodics |-> <<>>,
               shared |-> EmptyMap, output |-> NoOutput, status |-> "run", err |-> <<>>]

\* Annotations: job.Annotations hands the job's own map to the job base, a
\* job without annotations gets a map of its own
Aliased(j) == DOMAIN j.Annotations # {}

\* one kind of an expanded job: skipped, appended, or the end of the
\* conversion; the merge of the testgrid annotations writes into the map the
\* job base holds
convertKind(st, kind, selected, made, aliased) ==
    IF st.status # "run" \/ ~selected THEN st
    ELSE IF made.status # "run" THEN [st EXCEPT !.status = made.status, !.err = made.err]
    ELSE Bind({ IF kind = TypePresubmit THEN [s EXCEPT !.presubmits = Append(@, made.item)]
                ELSE IF kind = TypePostsubmit THEN [s EXCEPT !.postsubmits = Append(@, made.item)]
                ELSE [s EXCEPT !.periodics = Append(@, made.item)] :
                s \in {[st EXCEPT !.shared = IF aliased THEN made.item.Annotations ELSE @]} })

\* the jobs made from index from on read the map as it is now
sharedBy(made, from, annotations) ==
    [i \in DOMAIN made |->
        IF i > from THEN [made[i] EXCEPT !.Annotations = annotations] ELSE made[i]]

sharedAnnotations_copied(st, before, j) == st

\* the jobs made from one expanded job hold the one map of the job
sharedAnnotations(st, before, j) ==
    IF st.status = "run" /\ Aliased(j)
    THEN [st EXCEPT !.presubmits = sharedBy(@, Len(before.presubmits), st.shared),
                    !.postsubmits = sharedBy(@, Len(before.postsubmits), st.shared),
                    !.periodics = sharedBy(@, Len(before.periodics), st.shared)]
    ELSE st

\* the body of the loop over the expanded jobs
convertJob(st, c, jobsConfig, j, br) ==
    Bind({ Bind({ Bind({ sharedAnnotations(s3, st, j) :
        s3 \in {convertKind(s2, TypePeriodic, TypePeriodic \in SetOf(j.Types),
                            IF s2.status = "run" /\ TypePeriodic \in SetOf(j.Types)
                            THEN periodicOf(c, jobsConfig,
                                            [j EXCEPT !.Annotations = s2.shared], br)
                            ELSE Made("run", <<>>, NoJobBase),
                            Aliased(j))} }) :
        s2 \in {convertKind(s1, TypePostsubmit, Selects(j, TypePostsubmit),
                            IF s1.status = "run" /\ Selects(j, TypePostsubmit)
                            THEN postsubmitOf(c, jobsConfig,
                                              [j EXCEPT !.Annotations = s1.shared], br)
                            ELSE Made("run", <<>>, NoJobBase),
                            Aliased(j))} }) :
        s1 \in {convertKind([st EXCEPT !.shared = j.Annotations],
                            TypePresubmit, Selects(j, TypePresubmit),
                            IF st.status = "run" /\ Selects(j, TypePresubmit)
                            THEN presubmitOf(c, jobsConfig, j, br)
                            ELSE Made("run", <<>>, NoJobBase),
                            Aliased(j))} })

RECURSIVE convertExpanded(_, _, _, _, _, _)
convertExpanded(st, c, jobsConfig, expandedJobs, i, br) ==
    IF i > Len(expandedJobs) THEN st
    ELSE convertExpanded(convertJob(st, c, jobsConfig, expandedJobs[i], br),
                         c, jobsConfig, expandedJobs, i + 1, br)

\* the end of the body of the loop over the parent jobs
assignOutput(st) ==
    IF st.status # "run" THEN st
    ELSE [st EXCEPT !.output = [@ EXCEPT !.PresubmitsStatic = st.presubmits,
                                         !.PostsubmitsStatic = st.postsubmits,
                                         !.Periodics = st.periodics]]

RECURSIVE convertParents(_, _, _, _, _)
convertParents(st, c, jobsConfig, i, br) ==
    IF i > Len(jobsConfig.Jobs) THEN st
    ELSE convertParents(
           assignOutput(convertExpanded(st, c, jobsConfig,
                                        expandedJobsOf(jobsConfig.Jobs[i]), 1, br)),
           c, jobsConfig, i + 1, br)

convertJobConfig_noValidation(c, jobsConfig, br) ==
    Bind({ [st.output EXCEPT !.err = st.err, !.exited = st.status = "exit"] :
           st \in {convertParents(Converting, c, jobsConfig, 1, br)} })

\* Client.ConvertJobConfig, for the one branch of the catalog
convertJobConfig(c, jobsConfig, br) ==
    Bind({ IF err # <<>> THEN [NoOutput EXCEPT !.err = err]
           ELSE Bind({ [st.output EXCEPT !.err = st.err, !.exited = st.status = "exit"] :
                       st \in {convertParents(Converting, c, jobsConfig, 1, br)} }) :
           err \in {validateJobsConfig(jobsConfig)} })

(***************************************************************************)
(* The conversion of a catalog on one branch: which kinds of job come out, *)
(* under which names, and what a violation or a long name does.            *)
(***************************************************************************)
DefaultJob ==
    [Name |-> <<"n">>, Image |-> "img", Resources |-> "", Cron |-> <<>>,
     Interval |-> <<>>, Types |-> <<>>, Architectures |-> <<>>, Repos |-> <<>>,
     Regex |-> "", Modifiers |-> <<>>, Annotations |-> EmptyMap,
     Requirements |-> <<>>, ExcludedRequirements |-> <<>>]

NoTestgrid == [Enabled |-> FALSE, AlertEmail |-> <<>>, NumFailuresToAlert |-> <<>>]

NoPresets == [r \in {} |-> [Cron |-> <<>>]]

\* a name of l characters
NameOfLen(l) == [i \in 1..l |-> "n"]

\* the lengths around the limit, for each suffix and with or without a branch
NameLengths ==
    {1} \cup { maxJobNameLength - Len(suffix) - 2 + d :
               suffix \in {<<>>, PostsubmitSuffix, PeriodicSuffix}, d \in {0, 1} }

KindNames == {TypePresubmit, TypePostsubmit, TypePeriodic, "nightly"}

NamedDeviations(j) ==
    Deviation(j.Name # <<"n">>) + Deviation(j.Image # "img")
      + Deviation(j.Interval # <<>>) + Len(j.Types)

NamedJobsOfDeviation(w) ==
    { j \in { [DefaultJob EXCEPT !.Name = NameOfLen(l), !.Image = im,
                                 !.Interval = iv, !.Types = t] :
              l \in NameLengths, im \in Images, iv \in {<<>>, <<"1", "h">>},
              t \in UNION {SeqsOfLen(KindNames, n) : n \in 0..w} } :
      NamedDeviations(j) = w }

NamedJobsByDeviation == [w \in 0..MaxDeviations |-> NamedJobsOfDeviation(w)]

RECURSIVE NamedSum(_, _)
NamedSum(js, i) == IF i > Len(js) THEN 0 ELSE NamedDeviations(js[i]) + NamedSum(js, i + 1)

ConvertInit ==
    /\ ToolsIdle
    /\ MergeIdle
    /\ configs = <<>>
    /\ AliasIdle
    /\ MatrixIdle
    /\ catalog \in [Org : {"acme", ""}, Repo : {"r"}, ResourcePresets : {{"default"}},
                    RequirementPresets : {NoPresets}, Jobs : {<<>>}]
    /\ errs = <<>>
    /\ vpc = "start"
    /\ cli \in [LongJobNamesAllowed : BOOLEAN,
                BaseConfig : {[TestgridConfig |-> NoTestgrid, PathAliases |-> EmptyMap]}]
    /\ branch \in {Master, <<"b">>}
    /\ output = NoOutput
    /\ cpc = "start"

\* Client.ReadJobsConfig: one more job of the catalog file
ReadNamedJob ==
    /\ cpc = "start"
    /\ Len(catalog.Jobs) < MaxJobs
    /\ \E w \in 0..(MaxDeviations - NamedSum(catalog.Jobs, 1)) :
       \E j \in NamedJobsByDeviation[w] :
           catalog' = [catalog EXCEPT !.Jobs = Append(@, j)]
    /\ UNCHANGED <<errs, vpc, cli, branch, output, cpc, mergeVars, aliasVars, matrixVars, toolVars>>

\* Client.ConvertJobConfig
ConvertJobConfig ==
    /\ cpc = "start"
    /\ output' = convertJobConfig(cli, catalog, branch)
    /\ cpc' = "done"
    /\ UNCHANGED <<cli, branch, validateVars, mergeVars, aliasVars, matrixVars, toolVars>>

ConvertNext == ReadNamedJob \/ ConvertJobConfig

SpecConvert == ConvertInit /\ [][ConvertNext]_vars

(***************************************************************************)
(* The conversion of jobs that carry a regex, modifiers and annotations,   *)
(* with or without the testgrid integration.                               *)
(***************************************************************************)
Testgrid == [Enabled |-> TRUE, AlertEmail |-> <<"ops@">>, NumFailuresToAlert |-> <<"3">>]

\* "flaky" is none of the modifiers
ModifierNames == {ModifierPresubmitSkipped, ModifierPresubmitOptional, ModifierHidden, "flaky"}

AnnotationKeys == {TestGridDashboard, "owner"}

\* the annotation maps of n keys; a value is given or empty
AnnotationsOfSize(n) ==
    UNION { [ks -> {<<"mine">>, <<>>}] : ks \in {q \in SUBSET AnnotationKeys : Cardinality(q) = n} }

DecoratedDeviations(j) ==
    Deviation(j.Interval # <<>>) + Deviation(j.Regex # "") + Len(j.Types)
      + Len(j.Modifiers) + Cardinality(DOMAIN j.Annotations)

DecoratedJobsOfDeviation(w) ==
    { j \in { [DefaultJob EXCEPT !.Interval = iv, !.Regex = re, !.Types = t,
                                 !.Modifiers = m, !.Annotations = an] :
              iv \in {<<>>, <<"1", "h">>}, re \in {"", "re"},
              t \in UNION {SeqsOfLen({TypePresubmit, TypePostsubmit, TypePeriodic}, n) : n \in 0..Min({w, 2})},
              m \in UNION {SeqsOfLen(ModifierNames, n) : n \in 0..w},
              an \in UNION {AnnotationsOfSize(n) : n \in 0..Min({w, 3})} } :
      DecoratedDeviations(j) = w }

DecoratedJobsByDeviation == [w \in 0..MaxDeviations |-> DecoratedJobsOfDeviation(w)]

RECURSIVE DecoratedSum(_, _)
DecoratedSum(js, i) ==
    IF i > Len(js) THEN 0 ELSE DecoratedDeviations(js[i]) + DecoratedSum(js, i + 1)

DecorateInit ==
    /\ ToolsIdle
    /\ MergeIdle
    /\ configs = <<>>
    /\ AliasIdle
    /\ MatrixIdle
    /\ catalog = [Org |-> "acme", Repo |-> "r", ResourcePresets |-> {"default"},
                  RequirementPresets |-> NoPresets, Jobs |-> <<>>]
    /\ errs = <<>>
    /\ vpc = "start"
    /\ cli \in [LongJobNamesAllowed : {FALSE},
                BaseConfig : [TestgridConfig : {NoTestgrid, Testgrid},
                              PathAliases : {EmptyMap}]]
    /\ branch \in {Master, <<"b">>}
    /\ output = NoOutput
    /\ cpc = "start"

\* Client.ReadJobsConfig: one more job of the catalog file
ReadDecoratedJob ==
    /\ cpc = "start"
    /\ Len(catalog.Jobs) < MaxJobs
    /\ \E w \in 0..(MaxDeviations - DecoratedSum(catalog.Jobs, 1)) :
       \E j \in DecoratedJobsByDeviation[w] :
           catalog' = [catalog EXCEPT !.Jobs = Append(@, j)]
    /\ UNCHANGED <<errs, vpc, cli, branch, output, cpc, mergeVars, aliasVars, matrixVars, toolVars>>

DecorateNext == ReadDecoratedJob \/ ConvertJobConfig

SpecDecorate == DecorateInit /\ [][DecorateNext]_vars

(***************************************************************************)
(* The conversion of jobs that carry requirements, excluded requirements   *)
(* and extra repositories, under a table of requirement presets.           *)
(***************************************************************************)
\* requirement_presets: gcp changes the pod only, nightly also sets a cron
Presets ==
    [r \in {"gcp", "nightly"} |-> [Cron |-> IF r = "nightly" THEN <<"@daily">> ELSE <<>>]]

\* "ghost" is no preset of the table
RequirementNames == {"gcp", "nightly", "ghost"}

\* a job's kinds and its schedule
Scheduled ==
    {DefaultJob,
     [DefaultJob EXCEPT !.Types = <<TypePresubmit, TypePeriodic>>, !.Cron = Spaced(5, "*")],
     [DefaultJob EXCEPT !.Types = <<TypePresubmit, TypePeriodic>>, !.Interval = <<"1", "h">>]}

RequiringDeviations(j) == Len(j.Requirements) + Len(j.ExcludedRequirements)

RequiringJobsOfDeviation(w) ==
    UNION { { [sj EXCEPT !.Requirements = rq, !.ExcludedRequirements = ex] :
                sj \in Scheduled, rq \in SeqsOfLen(RequirementNames, n),
                ex \in SeqsOfLen(DOMAIN Presets, w - n) } :
            n \in 0..w }

RequiringJobsByDeviation == [w \in 0..MaxDeviations |-> RequiringJobsOfDeviation(w)]

RECURSIVE RequiringSum(_, _)
RequiringSum(js, i) ==
    IF i > Len(js) THEN 0 ELSE RequiringDeviations(js[i]) + RequiringSum(js, i + 1)

RequireInit ==
    /\ ToolsIdle
    /\ MergeIdle
    /\ configs = <<>>
    /\ AliasIdle
    /\ MatrixIdle
    /\ catalog = [Org |-> "acme", Repo |-> "r", ResourcePresets |-> {"default"},
                  RequirementPresets |-> Presets, Jobs |-> <<>>]
    /\ errs = <<>>
    /\ vpc = "start"
    /\ cli = [LongJobNamesAllowed |-> FALSE,
              BaseConfig |-> [TestgridConfig |-> NoTestgrid, PathAliases |-> EmptyMap]]
    /\ branch = Master
    /\ output = NoOutput
    /\ cpc = "start"

\* Client.ReadJobsConfig: one more job of the catalog file
ReadRequiringJob ==
    /\ cpc = "start"
    /\ Len(catalog.Jobs) < MaxJobs
    /\ \E w \in 0..(MaxDeviations - RequiringSum(catalog.Jobs, 1)) :
       \E j \in RequiringJobsByDeviation[w] :
           catalog' = [catalog EXCEPT !.Jobs = Append(@, j)]
    /\ UNCHANGED <<errs, vpc, cli, branch, output, cpc, mergeVars, aliasVars, matrixVars, toolVars>>

RequireNext == ReadRequiringJob \/ ConvertJobConfig

SpecRequire == RequireInit /\ [][RequireNext]_vars

(***************************************************************************)
(* The conversion of jobs that check out extra repositories.               *)
(***************************************************************************)
\* org/repo, org/repo@branch, an org with a dot
ExtraRepos ==
    {<<"o", "/", "r">>, <<"o", "/", "x", "@", "rel">>, <<"g", ".", "c", "/", "r">>}

\* path_aliases of the base config: one for the org o, none for g.c
Aliases == [o \in {<<"o">>} |-> <<"io">>]

CheckoutJobsOfDeviation(w) ==
    { [sj EXCEPT !.Repos = rp] : sj \in Scheduled, rp \in SeqsOfLen(ExtraRepos, w) }

CheckoutJobsByDeviation == [w \in 0..MaxDeviations |-> CheckoutJobsOfDeviation(w)]

RECURSIVE CheckoutSum(_, _)
CheckoutSum(js, i) == IF i > Len(js) THEN 0 ELSE Len(js[i].Repos) + CheckoutSum(js, i + 1)

CheckoutInit ==
    /\ ToolsIdle
    /\ MergeIdle
    /\ configs = <<>>
    /\ AliasIdle
    /\ MatrixIdle
    /\ catalog = [Org |-> "acme", Repo |-> "r", ResourcePresets |-> {"default"},
                  RequirementPresets |-> NoPresets, Jobs |-> <<>>]
    /\ errs = <<>>
    /\ vpc = "start"
    /\ cli \in [LongJobNamesAllowed : {FALSE},
                BaseConfig : [TestgridConfig : {NoTestgrid},
                              PathAliases : {EmptyMap, Aliases}]]
    /\ branch \in {Master, <<"b">>}
    /\ output = NoOutput
    /\ cpc = "start"

\* Client.ReadJobsConfig: one more job of the catalog file
ReadCheckoutJob ==
    /\ cpc = "start"
    /\ Len(catalog.Jobs) < MaxJobs
    /\ \E w \in 0..(MaxDeviations - CheckoutSum(catalog.Jobs, 1)) :
       \E j \in CheckoutJobsByDeviation[w] :
           catalog' = [catalog EXCEPT !.Jobs = Append(@, j)]
    /\ UNCHANGED <<errs, vpc, cli, branch, output, cpc, mergeVars, aliasVars, matrixVars, toolVars>>

CheckoutNext == ReadCheckoutJob \/ ConvertJobConfig

SpecCheckout == CheckoutInit /\ [][CheckoutNext]_vars

\* ---- the claims on the conversion
Materialized(out) ==
    Len(out.PresubmitsStatic) + Len(out.PostsubmitsStatic) + Len(out.Periodics)

\* C11: when the catalog has at least one validation violation, ConvertJobConfig
\* returns the validation error and no job at all, also when the jobs before
\* the offending one are valid
C11_ValidationBeforeMaterialization ==
    (cpc = "done" /\ validateJobsConfig(catalog) # <<>>) =>
        /\ output.err = validateJobsConfig(catalog)
        /\ Materialized(output) = 0
        /\ ~output.exited

\* a valid job comes first, the job without image second: nothing is made
C11_Witness ==
    /\ cpc = "done"
    /\ Len(catalog.Jobs) = 2
    /\ checkJob(<<>>, catalog, catalog.Jobs[1]) = <<>>
    /\ catalog.Org # ""
    /\ catalog.Jobs[2].Image = ""
    /\ output.err # <<>>
    /\ Materialized(output) = 0

Converted == cpc = "done" /\ output.err = <<>> /\ ~output.exited

\* the kinds a job declares, or the two a job without types stands for
Wants(j, kind) ==
    IF j.Types = <<>> THEN kind \in {"presubmit", "postsubmit"}
    ELSE \E i \in DOMAIN j.Types : j.Types[i] = kind

JobsWanting(kind) == SelectSeq(catalog.Jobs, LAMBDA j : Wants(j, kind))

IsPrefix(p, q) == Len(p) <= Len(q) /\ SubSeq(q, 1, Len(p)) = p

\* the jobs of one kind are the jobs of the catalog that want it, one each, in order
OneEach(made, kind) ==
    /\ Len(made) = Len(JobsWanting(kind))
    /\ \A i \in DOMAIN made : IsPrefix(JobsWanting(kind)[i].Name, made[i].Name)

\* C12: a job without types yields exactly one presubmit and one postsubmit and
\* no periodic; a job with types yields exactly one job of each kind it lists
C12_JobKindSelection ==
    Converted =>
        /\ OneEach(output.PresubmitsStatic, "presubmit")
        /\ OneEach(output.PostsubmitsStatic, "postsubmit")
        /\ OneEach(output.Periodics, "periodic")

\* a job without types beside a job that is periodic only
C12_Witness ==
    /\ Converted
    /\ \E i, k \in DOMAIN catalog.Jobs :
         /\ catalog.Jobs[i].Types = <<>>
         /\ catalog.Jobs[k].Types = <<"periodic">>
    /\ Len(output.PresubmitsStatic) = 1
    /\ Len(output.PostsubmitsStatic) = 1
    /\ Len(output.Periodics) = 1

\* the name the catalog's job has on the branch, for a kind's suffix
ExpectedName(j, suffix) ==
    j.Name \o <<"_", catalog.Repo>>
      \o (IF branch = <<"m", "a", "s", "t", "e", "r">> THEN <<>> ELSE <<"_">> \o branch)
      \o suffix

NamedAs(made, kind, suffix) ==
    \A i \in DOMAIN made :
        i \in DOMAIN JobsWanting(kind) =>
            made[i].Name = ExpectedName(JobsWanting(kind)[i], suffix)

\* C13: a presubmit is named <job>_<repo> on master and <job>_<repo>_<branch>
\* elsewhere; a postsubmit has that name with _postsubmit appended, a
\* periodic with _periodic appended
C13_Naming ==
    cpc = "done" =>
        /\ NamedAs(output.PresubmitsStatic, "presubmit", <<>>)
        /\ NamedAs(output.PostsubmitsStatic, "postsubmit",
                   <<"_", "p", "o", "s", "t", "s", "u", "b", "m", "i", "t">>)
        /\ NamedAs(output.Periodics, "periodic",
                   <<"_", "p", "e", "r", "i", "o", "d", "i", "c">>)

\* all three kinds made on a branch other than master
C13_Witness ==
    /\ Converted
    /\ branch = <<"b">>
    /\ Len(output.PresubmitsStatic) > 0
    /\ Len(output.PostsubmitsStatic) > 0
    /\ Len(output.Periodics) > 0
    /\ output.Periodics[1].Name =
         catalog.Jobs[1].Name \o <<"_", "r", "_", "b", "_", "p", "e", "r", "i", "o", "d", "i", "c">>

\* the names the conversion has to make
ExpectedNames ==
    {ExpectedName(catalog.Jobs[i], <<>>) :
        i \in {k \in DOMAIN catalog.Jobs : Wants(catalog.Jobs[k], "presubmit")}}
    \cup {ExpectedName(catalog.Jobs[i], <<"_", "p", "o", "s", "t", "s", "u", "b", "m", "i", "t">>) :
        i \in {k \in DOMAIN catalog.Jobs : Wants(catalog.Jobs[k], "postsubmit")}}
    \cup {ExpectedName(catalog.Jobs[i], <<"_", "p", "e", "r", "i", "o", "d", "i", "c">>) :
        i \in {k \in DOMAIN catalog.Jobs : Wants(catalog.Jobs[k], "periodic")}}

\* C14: names of at most 63 characters never fail the conversion; a name of 64
\* or more fails it with an error that names the job, unless long names are
\* allowed, and then no name fails it
C14_NameLength ==
    (cpc = "done" /\ validateJobsConfig(catalog) = <<>>) =>
        IF cli.LongJobNamesAllowed \/ \A n \in ExpectedNames : Len(n) <= 63
        THEN output.err = <<>>
        ELSE \E n \in ExpectedNames :
                /\ Len(n) >= 64
                /\ Len(output.err) = 1
                /\ output.err[1].job = n

\* a name of exactly 63 characters is made, the next one of 64 fails
C14_Witness ==
    /\ cpc = "done"
    /\ ~cli.LongJobNamesAllowed
    /\ Len(output.PresubmitsStatic) = 1
    /\ Len(output.PresubmitsStatic[1].Name) = 63
    /\ Len(output.err) = 1
    /\ Len(output.err[1].job) = 64

\* names of 64 characters are made where long names are allowed
C14_WitnessAllowed ==
    /\ Converted
    /\ cli.LongJobNamesAllowed
    /\ \E i \in DOMAIN output.PostsubmitsStatic : Len(output.PostsubmitsStatic[i].Name) = 64

\* C15: a presubmit always runs exactly when its job declares no regex and
\* does not carry presubmit_skipped; with a regex, RunIfChanged is the regex
\* and AlwaysRun is false, whatever the modifiers and their order
C15_AlwaysRun ==
    cpc = "done" =>
        \A i \in DOMAIN output.PresubmitsStatic :
            i \in DOMAIN JobsWanting("presubmit") =>
                /\ output.PresubmitsStatic[i].AlwaysRun =
                     (/\ JobsWanting("presubmit")[i].Regex = ""
                      /\ \A k \in DOMAIN JobsWanting("presubmit")[i].Modifiers :
                            JobsWanting("presubmit")[i].Modifiers[k] # "presubmit_skipped")
                /\ JobsWanting("presubmit")[i].Regex # "" =>
                     /\ output.PresubmitsStatic[i].RunIfChanged = JobsWanting("presubmit")[i].Regex
                     /\ ~output.PresubmitsStatic[i].AlwaysRun

\* a presubmit with a regex and a modifier, one skipped without a regex
C15_Witness ==
    /\ Converted
    /\ Len(catalog.Jobs) = 2
    /\ catalog.Jobs[1].Regex = "re" /\ catalog.Jobs[1].Modifiers = <<"presubmit_optional">>
    /\ catalog.Jobs[2].Regex = "" /\ catalog.Jobs[2].Modifiers = <<"presubmit_skipped">>
    /\ Len(output.PresubmitsStatic) = 2
    /\ ~output.PresubmitsStatic[1].AlwaysRun /\ output.PresubmitsStatic[1].Optional
    /\ ~output.PresubmitsStatic[2].AlwaysRun

\* a presubmit that always runs: no regex, modifiers other than presubmit_skipped
C15_WitnessAlways ==
    /\ Converted
    /\ Len(output.PresubmitsStatic) = 1
    /\ catalog.Jobs[1].Modifiers = <<"hidden", "presubmit_optional">>
    /\ output.PresubmitsStatic[1].AlwaysRun

InjectedKeys == {"testgrid-dashboards", "testgrid-alert-email", "testgrid-num-failures-to-alert"}

KeepsOwn(made, kind) ==
    \A i \in DOMAIN made :
        i \in DOMAIN JobsWanting(kind) =>
            \A k \in InjectedKeys \cap DOMAIN JobsWanting(kind)[i].Annotations :
                /\ k \in DOMAIN made[i].Annotations
                /\ made[i].Annotations[k] = JobsWanting(kind)[i].Annotations[k]

\* C16: with the testgrid integration enabled, a job that declares an
\* annotation under one of the injected keys keeps its own value for that key
\* in every job made from it
C16_NonDestructiveInjection ==
    (cpc = "done" /\ cli.BaseConfig.TestgridConfig.Enabled) =>
        /\ KeepsOwn(output.PresubmitsStatic, "presubmit")
        /\ KeepsOwn(output.PostsubmitsStatic, "postsubmit")
        /\ KeepsOwn(output.Periodics, "periodic")

\* the job declares testgrid-dashboards with an empty value and the presubmit
\* carries the injected dashboard name instead
C16_Witness ==
    /\ Converted
    /\ cli.BaseConfig.TestgridConfig.Enabled
    /\ branch = Master
    /\ Len(catalog.Jobs) = 1
    /\ catalog.Jobs[1].Annotations = [k \in {"testgrid-dashboards"} |-> <<>>]
    /\ Len(output.PresubmitsStatic) = 1
    /\ output.PresubmitsStatic[1].Annotations["testgrid-dashboards"] = <<"acme", "_", "r">>

\* declared values that are not empty are kept, the injected keys the job
\* does not declare are added
C16_WitnessKept ==
    /\ Converted
    /\ cli.BaseConfig.TestgridConfig.Enabled
    /\ Len(catalog.Jobs) = 1
    /\ catalog.Jobs[1].Annotations = [k \in {"testgrid-dashboards"} |-> <<"mine">>]
    /\ Len(output.PostsubmitsStatic) = 1
    /\ output.PostsubmitsStatic[1].Annotations["testgrid-dashboards"] = <<"mine">>
    /\ output.PostsubmitsStatic[1].Annotations["testgrid-alert-email"] = <<"ops@">>

\* the requirements of a job that it does not exclude, in the order of the list
Applicable(j) ==
    SelectSeq(j.Requirements,
              LAMBDA r : \A i \in DOMAIN j.ExcludedRequirements : j.ExcludedRequirements[i] # r)

AppliesInOrder(made, kind) ==
    \A i \in DOMAIN made :
        i \in DOMAIN JobsWanting(kind) =>
            /\ made[i].Applied = Applicable(JobsWanting(kind)[i])
            /\ \A k \in DOMAIN made[i].Applied, x \in DOMAIN JobsWanting(kind)[i].ExcludedRequirements :
                  made[i].Applied[k] # JobsWanting(kind)[i].ExcludedRequirements[x]

\* C17: the presets applied to a job that is made are those its requirement
\* list names and its excluded-requirements list does not, in the order of the
\* requirement list; the preset of an excluded requirement is never applied
C17_RequirementApplication ==
    cpc = "done" =>
        /\ AppliesInOrder(output.PresubmitsStatic, "presubmit")
        /\ AppliesInOrder(output.PostsubmitsStatic, "postsubmit")
        /\ AppliesInOrder(output.Periodics, "periodic")

\* two requirements of which the first is excluded
C17_Witness ==
    /\ Converted
    /\ Len(catalog.Jobs) = 1
    /\ catalog.Jobs[1].Requirements = <<"nightly", "gcp">>
    /\ catalog.Jobs[1].ExcludedRequirements = <<"nightly">>
    /\ Len(output.PresubmitsStatic) = 1
    /\ output.PresubmitsStatic[1].Applied = <<"gcp">>
    /\ Len(output.Periodics) = 1
    /\ output.Periodics[1].Applied = <<"gcp">>

\* two requirements, none excluded: applied in the order of the list
C17_WitnessOrder ==
    /\ Converted
    /\ Len(catalog.Jobs) = 1
    /\ catalog.Jobs[1].Requirements = <<"nightly", "gcp">>
    /\ Len(output.PostsubmitsStatic) = 1
    /\ output.PostsubmitsStatic[1].Applied = <<"nightly", "gcp">>

\* the crons the presets applied to a job carry
AppliedCrons(j) ==
    {catalog.RequirementPresets[Applicable(j)[i]].Cron :
        i \in {k \in DOMAIN Applicable(j) :
                 /\ Applicable(j)[k] \in DOMAIN catalog.RequirementPresets
                 /\ catalog.RequirementPresets[Applicable(j)[k]].Cron # <<>>}}

\* C18: the cron of a periodic is a preset's cron only when that preset is
\* applied to the job (required and not excluded) and carries a cron; when
\* no applied preset carries one it is the cron the job declares
C18_CronOverride ==
    cpc = "done" =>
        \A i \in DOMAIN output.Periodics :
            i \in DOMAIN JobsWanting("periodic") =>
                IF AppliedCrons(JobsWanting("periodic")[i]) = {}
                THEN output.Periodics[i].Cron = JobsWanting("periodic")[i].Cron
                ELSE output.Periodics[i].Cron \in AppliedCrons(JobsWanting("periodic")[i])

\* the job excludes the requirement it names, and the preset's cron still
\* replaces the job's
C18_Witness ==
    /\ Converted
    /\ Len(catalog.Jobs) = 1
    /\ catalog.Jobs[1].Cron = <<"*", " ", "*", " ", "*", " ", "*", " ", "*">>
    /\ catalog.Jobs[1].Requirements = <<"nightly">>
    /\ catalog.Jobs[1].ExcludedRequirements = <<"nightly">>
    /\ Len(output.Periodics) = 1
    /\ output.Periodics[1].Applied = <<>>
    /\ output.Periodics[1].Cron = <<"@daily">>

\* an applied preset with a cron replaces the job's cron, one without leaves it
C18_WitnessApplied ==
    /\ Converted
    /\ Len(catalog.Jobs) = 2
    /\ catalog.Jobs[1].Cron # <<>> /\ catalog.Jobs[1].Requirements = <<"nightly">>
    /\ catalog.Jobs[1].ExcludedRequirements = <<>>
    /\ catalog.Jobs[2].Cron # <<>> /\ catalog.Jobs[2].Requirements = <<"gcp">>
    /\ Len(output.Periodics) = 2
    /\ output.Periodics[1].Cron = <<"@daily">>
    /\ output.Periodics[2].Cron = catalog.Jobs[2].Cron

\* the parts of a reference org/repo[@branch]
At(ref, c) == CHOOSE i \in DOMAIN ref : ref[i] = c

Has(ref, c) == \E i \in DOMAIN ref : ref[i] = c

RefOrg(ref) == SubSeq(ref, 1, At(ref, "/") - 1)

RefRepo(ref) ==
    SubSeq(ref, At(ref, "/") + 1, IF Has(ref, "@") THEN At(ref, "@") - 1 ELSE Len(ref))

RefBranch(ref) == IF Has(ref, "@") THEN SubSeq(ref, At(ref, "@") + 1, Len(ref)) ELSE branch

\* the descriptors from index off + 1 on check out the declared repositories, in order
ChecksOut(descriptors, off, declared) ==
    /\ Len(descriptors) = off + Len(declared)
    /\ \A k \in DOMAIN declared :
          /\ descriptors[off + k].Org = RefOrg(declared[k])
          /\ descriptors[off + k].Repo = RefRepo(declared[k])

DeclaredOnly(made, kind) ==
    \A i \in DOMAIN made :
        i \in DOMAIN JobsWanting(kind) =>
            ChecksOut(made[i].ExtraRefs, 0, JobsWanting(kind)[i].Repos)

\* C19: the extra refs of a periodic begin with the owning org and repo and go
\* on with the repositories the job declares, in their order; the presubmit
\* and the postsubmit of the same job hold the declared ones only
C19_PeriodicSelfCheckout ==
    cpc = "done" =>
        /\ DeclaredOnly(output.PresubmitsStatic, "presubmit")
        /\ DeclaredOnly(output.PostsubmitsStatic, "postsubmit")
        /\ \A i \in DOMAIN output.Periodics :
              i \in DOMAIN JobsWanting("periodic") =>
                  /\ Len(output.Periodics[i].ExtraRefs) >= 1
                  /\ output.Periodics[i].ExtraRefs[1].Org = <<catalog.Org>>
                  /\ output.Periodics[i].ExtraRefs[1].Repo = <<catalog.Repo>>
                  /\ ChecksOut(output.Periodics[i].ExtraRefs, 1, JobsWanting("periodic")[i].Repos)

\* a presubmit and a periodic of one job with two extra repositories
C19_Witness ==
    /\ Converted
    /\ Len(catalog.Jobs) = 1
    /\ catalog.Jobs[1].Repos = <<<<"o", "/", "r">>, <<"g", ".", "c", "/", "r">>>>
    /\ Len(output.PresubmitsStatic) = 1
    /\ Len(output.PresubmitsStatic[1].ExtraRefs) = 2
    /\ Len(output.Periodics) = 1
    /\ Len(output.Periodics[1].ExtraRefs) = 3
    /\ output.Periodics[1].ExtraRefs[1].Org = <<"acme">>
    /\ output.Periodics[1].ExtraRefs[3].Org = <<"g", ".", "c">>

\* the descriptor of a reference
Resolves(d, ref) ==
    /\ d.Org = RefOrg(ref)
    /\ d.Repo = RefRepo(ref)
    /\ d.BaseRef = RefBranch(ref)
    /\ d.PathAlias = IF RefOrg(ref) \in DOMAIN cli.BaseConfig.PathAliases
                     THEN cli.BaseConfig.PathAliases[RefOrg(ref)] \o <<"/">> \o RefRepo(ref)
                     ELSE <<>>
    /\ d.CloneURI = IF Has(RefOrg(ref), ".")
                    THEN <<"https://">> \o RefOrg(ref) \o <<"/">> \o RefRepo(ref)
                    ELSE <<>>

ResolvesAll(made, kind, off) ==
    \A i \in DOMAIN made :
        i \in DOMAIN JobsWanting(kind) =>
            /\ Len(made[i].ExtraRefs) = off + Len(JobsWanting(kind)[i].Repos)
            /\ \A k \in DOMAIN JobsWanting(kind)[i].Repos :
                  Resolves(made[i].ExtraRefs[off + k], JobsWanting(kind)[i].Repos[k])

\* C20: every reference org/repo[@branch] gives one descriptor, in the order
\* of the list: the base ref is the given branch, or the target branch when
\* none is given; the path alias is <alias>/<repo> exactly when the org has
\* an alias; the clone URI is https://<org>/<repo> exactly when the org
\* holds a dot
C20_ExtraRepositoryResolution ==
    cpc = "done" =>
        /\ ResolvesAll(output.PresubmitsStatic, "presubmit", 0)
        /\ ResolvesAll(output.PostsubmitsStatic, "postsubmit", 0)
        /\ ResolvesAll(output.Periodics, "periodic", 1)

\* a reference with a branch and an aliased org, then one of an org with a dot
C20_Witness ==
    /\ Converted
    /\ branch = <<"b">>
    /\ cli.BaseConfig.PathAliases = Aliases
    /\ Len(catalog.Jobs) = 1
    /\ catalog.Jobs[1].Repos = <<<<"o", "/", "x", "@", "rel">>, <<"g", ".", "c", "/", "r">>>>
    /\ Len(output.PostsubmitsStatic) = 1
    /\ output.PostsubmitsStatic[1].ExtraRefs =
         <<[Org |-> <<"o">>, Repo |-> <<"x">>, BaseRef |-> <<"rel">>,
            PathAlias |-> <<"io", "/", "x">>, CloneURI |-> <<>>],
           [Org |-> <<"g", ".", "c">>, Repo |-> <<"r">>, BaseRef |-> <<"b">>,
            PathAlias |-> <<>>, CloneURI |-> <<"https://", "g", ".", "c", "/", "r">>]>>

(***************************************************************************)
(* The validation and the conversion of jobs whose extra repositories are  *)
(* of the form org/repo[@branch] or of another form.                       *)
(***************************************************************************)
RepoForms ==
    {<<"o", "/", "r">>, <<"o", "/", "r", "@", "rel">>, <<"o", "/", "r", "@", "v", "/", "1">>,
     <<"o", "/">>, <<"/", "r">>, <<"o">>, <<"o", "/", "r", "/", "x">>}

ReferringJobsOfDeviation(w) == { [DefaultJob EXCEPT !.Repos = rp] : rp \in SeqsOfLen(RepoForms, w) }

ReferringJobsByDeviation == [w \in 0..MaxDeviations |-> ReferringJobsOfDeviation(w)]

ReposInit ==
    /\ ToolsIdle
    /\ MergeIdle
    /\ configs = <<>>
    /\ AliasIdle
    /\ MatrixIdle
    /\ catalog = [Org |-> "acme", Repo |-> "r", ResourcePresets |-> {"default"},
                  RequirementPresets |-> NoPresets, Jobs |-> <<>>]
    /\ errs = <<>>
    /\ vpc = "start"
    /\ cli = [LongJobNamesAllowed |-> FALSE,
              BaseConfig |-> [TestgridConfig |-> NoTestgrid, PathAliases |-> EmptyMap]]
    /\ branch \in {Master, <<"b">>}
    /\ output = NoOutput
    /\ cpc = "start"

\* Client.ReadJobsConfig: one more job of the catalog file
ReadReferringJob ==
    /\ cpc = "start"
    /\ Len(catalog.Jobs) < MaxJobs
    /\ \E w \in 0..(MaxDeviations - CheckoutSum(catalog.Jobs, 1)) :
       \E j \in ReferringJobsByDeviation[w] :
           catalog' = [catalog EXCEPT !.Jobs = Append(@, j)]
    /\ UNCHANGED <<errs, vpc, cli, branch, output, cpc, mergeVars, aliasVars, matrixVars, toolVars>>

ReposNext == ReadReferringJob \/ ConvertJobConfig

SpecRepos == ReposInit /\ [][ReposNext]_vars

\* organization/repository, optionally followed by @ and a branch
WellFormed(ref) ==
    \E i \in DOMAIN ref :
        /\ ref[i] = "/"
        /\ i > 1
        /\ \A k \in 1..(i - 1) : ref[k] \notin {"/", "@"}
        /\ \E e \in (i + 1)..Len(ref) :
              /\ \A k \in (i + 1)..e : ref[k] \notin {"/", "@"}
              /\ e = Len(ref) \/ ref[e + 1] = "@"

\* the references the catalog declares
Declared == UNION {SetOf(catalog.Jobs[i].Repos) : i \in DOMAIN catalog.Jobs}

\* the validation names the value in a violation
Rejected(ref) == \E k \in DOMAIN output.err : output.err[k].value = ref

NonEmptyRefs(made) ==
    \A i \in DOMAIN made : \A k \in DOMAIN made[i].ExtraRefs :
        made[i].ExtraRefs[k].Org # <<>> /\ made[i].ExtraRefs[k].Repo # <<>>

\* C21: the validator accepts a reference exactly when it is of the form
\* organization/repository[@branch], whatever the branch, and names every
\* other value in a violation; the references that reach createExtraRefs
\* resolve to an organization and a repository that are not empty
C21_ExtraRepositoryValidation ==
    cpc = "done" =>
        /\ \A ref \in Declared : Rejected(ref) <=> ~WellFormed(ref)
        /\ NonEmptyRefs(output.PresubmitsStatic)
        /\ NonEmptyRefs(output.PostsubmitsStatic)

\* the reference o/ passes the validation and resolves to an empty repository
C21_Witness ==
    /\ Converted
    /\ Len(catalog.Jobs) = 1
    /\ catalog.Jobs[1].Repos = <<<<"o", "/">>>>
    /\ Len(output.PresubmitsStatic) = 1
    /\ output.PresubmitsStatic[1].ExtraRefs[1].Org = <<"o">>
    /\ output.PresubmitsStatic[1].ExtraRefs[1].Repo = <<>>

\* the reference o/r@v/1, of the form, is rejected
C21_WitnessBranch ==
    /\ cpc = "done"
    /\ Len(catalog.Jobs) = 1
    /\ catalog.Jobs[1].Repos = <<<<"o", "/", "r", "@", "v", "/", "1">>>>
    /\ Len(output.err) = 1
    /\ output.err[1].value = <<"o", "/", "r", "@", "v", "/", "1">>

\* the references of another form with no or two slashes are rejected, those
\* of the form without a slash in the branch are accepted
C21_SlashCount ==
    cpc = "done" =>
        \A ref \in Declared :
            Rejected(ref) <=> Cardinality({i \in DOMAIN ref : ref[i] = "/"}) # 1

\* the declared architectures outside the set of architectures, with their places
ForeignArchs ==
    {<<i, k>> \in (DOMAIN catalog.Jobs) \X (1..MaxDeviations) :
        /\ k \in DOMAIN catalog.Jobs[i].Architectures
        /\ catalog.Jobs[i].Architectures[k] \notin {"amd64", "arm64"}}

ArchErrors == {k \in DOMAIN errs : errs[k].description = "architectures"}

\* C22: validation reports one violation for every architecture a job
\* declares outside the set of amd64 and arm64
C22_ArchitectureValidation ==
    vpc = "done" =>
        /\ Cardinality(ArchErrors) = Cardinality(ForeignArchs)
        /\ \A p \in ForeignArchs :
              \E k \in ArchErrors : errs[k].value = <<catalog.Jobs[p[1]].Architectures[p[2]]>>

\* a job that declares the architecture periodic passes the validation
C22_Witness ==
    /\ vpc = "done"
    /\ catalog.Org # "" /\ catalog.Repo # ""
    /\ Len(catalog.Jobs) = 1
    /\ catalog.Jobs[1].Architectures = <<"periodic">>
    /\ errs = <<>>

\* an architecture that is neither of the two nor periodic is reported
C22_WitnessReported ==
    /\ vpc = "done"
    /\ Len(catalog.Jobs) = 1
    /\ catalog.Jobs[1].Architectures = <<"amd64", "sparc">>
    /\ Cardinality(ArchErrors) = 1

\* the modifiers the catalog's jobs carry that are none of the three modifiers
UnknownModifiers ==
    UNION {SetOf(catalog.Jobs[i].Modifiers) : i \in DOMAIN catalog.Jobs}
      \ {"hidden", "presubmit_optional", "presubmit_skipped"}

\* C23: the validation reports a violation for every modifier of a job that is
\* none of hidden, presubmit_optional and presubmit_skipped, and no job is
\* made from a catalog that carries one
C23_ModifierValidation ==
    (cpc = "done" /\ UnknownModifiers # {}) =>
        /\ \A m \in UnknownModifiers : \E k \in DOMAIN output.err : output.err[k].value = <<m>>
        /\ Materialized(output) = 0

\* a job with the modifier flaky is converted without a violation
C23_Witness ==
    /\ Converted
    /\ Len(catalog.Jobs) = 1
    /\ catalog.Jobs[1].Modifiers = <<"flaky">>
    /\ Len(output.PresubmitsStatic) = 1
    /\ Len(output.PostsubmitsStatic) = 1

Carries(j, modifier) == \E k \in DOMAIN j.Modifiers : j.Modifiers[k] = modifier

\* C24: on a presubmit hidden sets SkipReport and a reporter config without
\* job states, presubmit_optional sets Optional, presubmit_skipped clears
\* AlwaysRun; on a postsubmit hidden sets SkipReport and turns the report off
\* and the two presubmit modifiers change nothing; only which modifiers the
\* list holds matters, not their order
C24_ModifierApplication ==
    cpc = "done" =>
        /\ \A i \in DOMAIN output.PresubmitsStatic :
              i \in DOMAIN JobsWanting("presubmit") =>
                  /\ output.PresubmitsStatic[i].SkipReport
                       = Carries(JobsWanting("presubmit")[i], "hidden")
                  /\ output.PresubmitsStatic[i].ReporterConfig
                       = (IF Carries(JobsWanting("presubmit")[i], "hidden")
                          THEN "slack: no states" ELSE "")
                  /\ output.PresubmitsStatic[i].Optional
                       = Carries(JobsWanting("presubmit")[i], "presubmit_optional")
                  /\ Carries(JobsWanting("presubmit")[i], "presubmit_skipped")
                       => ~output.PresubmitsStatic[i].AlwaysRun
        /\ \A i \in DOMAIN output.PostsubmitsStatic :
              i \in DOMAIN JobsWanting("postsubmit") =>
                  /\ output.PostsubmitsStatic[i].SkipReport
                       = Carries(JobsWanting("postsubmit")[i], "hidden")
                  /\ output.PostsubmitsStatic[i].ReporterConfig
                       = (IF Carries(JobsWanting("postsubmit")[i], "hidden")
                          THEN "slack: no report" ELSE "")
                  /\ output.PostsubmitsStatic[i].RunIfChanged = JobsWanting("postsubmit")[i].Regex

\* a job with all three modifiers, hidden last
C24_Witness ==
    /\ Converted
    /\ Len(catalog.Jobs) = 1
    /\ catalog.Jobs[1].Modifiers = <<"presubmit_skipped", "presubmit_optional", "hidden">>
    /\ Len(output.PresubmitsStatic) = 1
    /\ output.PresubmitsStatic[1].SkipReport
    /\ output.PresubmitsStatic[1].Optional
    /\ ~output.PresubmitsStatic[1].AlwaysRun
    /\ Len(output.PostsubmitsStatic) = 1
    /\ output.PostsubmitsStatic[1].SkipReport

\* the same two modifiers in the other order
C24_WitnessOrder ==
    /\ Converted
    /\ Len(catalog.Jobs) = 1
    /\ catalog.Jobs[1].Modifiers = <<"hidden", "presubmit_optional">>
    /\ output.PresubmitsStatic[1].SkipReport
    /\ output.PresubmitsStatic[1].Optional
    /\ output.PresubmitsStatic[1].AlwaysRun

(***************************************************************************)
(* Diff: the generated jobs of a repository against the persisted ones.    *)
(***************************************************************************)
MaxDiffJobs == 4

\* pretty.Diff(current, &job): one entry for every field that differs
prettyDiff(current, j) ==
    IF current.SkipReport # j.SkipReport
    THEN <<[field |-> "SkipReport", was |-> current.SkipReport, is |-> j.SkipReport]>>
    ELSE <<>>

\* a printed line
Line(kind, name, detail) == [kind |-> kind, name |-> name, detail |-> detail]

\* the first job of the list with the name, as getPresubmit finds it
firstNamed(list, jobName) ==
    IF \E i \in DOMAIN list : list[i].Name = jobName
    THEN [found |-> TRUE,
          job |-> list[Min({i \in DOMAIN list : list[i].Name = jobName})]]
    ELSE [found |-> FALSE, job |-> [Name |-> "", SkipReport |-> FALSE]]

getPresubmit(c, jobName) == firstNamed(c.PresubmitsStatic, jobName)

\* the lines of one generated job
diffJob(current, j) ==
    IF ~current.found THEN <<Line("created", j.Name, <<>>)>>
    ELSE Bind({ (IF Len(diff) > 0 THEN <<Line("diff", j.Name, <<>>)>> ELSE <<>>)
                  \o [k \in DOMAIN diff |-> Line("detail", j.Name, diff[k])] :
                diff \in {prettyDiff(current.job, j)} })

\* the loop over the generated jobs
RECURSIVE diffGenerated(_, _, _)
diffGenerated(list, currentList, i) ==
    IF i > Len(list) THEN <<>>
    ELSE diffJob(firstNamed(currentList, list[i].Name), list[i])
           \o diffGenerated(list, currentList, i + 1)

diffMissing_none(list, currentList) == <<>>

\* the loop over the persisted jobs: those whose name is not known
diffMissing(list, currentList) ==
    [k \in DOMAIN SelectSeq(currentList,
                            LAMBDA c : \A i \in DOMAIN list : list[i].Name # c.Name) |->
        Line("missing",
             SelectSeq(currentList,
                       LAMBDA c : \A i \in DOMAIN list : list[i].Name # c.Name)[k].Name,
             <<>>)]

diffConfigPresubmit(result, pj) ==
    diffGenerated(result.PresubmitsStatic, pj.PresubmitsStatic, 1)
      \o diffMissing(result.PresubmitsStatic, pj.PresubmitsStatic)

diffConfigPostsubmit(result, pj) ==
    diffGenerated(result.PostsubmitsStatic, pj.PostsubmitsStatic, 1)
      \o diffMissing(result.PostsubmitsStatic, pj.PostsubmitsStatic)

\* Diff(result, existing)
Diff(result, pj) ==
    <<Line("heading", "Presubmit diff:", <<>>)>> \o diffConfigPresubmit(result, pj)
      \o <<Line("heading", "Postsubmit diff:", <<>>)>> \o diffConfigPostsubmit(result, pj)

DiffJobs == [Name : {"a", "b"}, SkipReport : BOOLEAN]

DiffSize ==
    Len(generated.PresubmitsStatic) + Len(generated.PostsubmitsStatic)
      + Len(persisted.PresubmitsStatic) + Len(persisted.PostsubmitsStatic)

DiffInit ==
    /\ MergeIdle
    /\ configs = <<>>
    /\ AliasIdle
    /\ MatrixIdle
    /\ ValidateIdle
    /\ ConvertIdle
    /\ ToolsIdle

\* one more job generated for the repository
Generate ==
    /\ dpc = "start"
    /\ DiffSize < MaxDiffJobs
    /\ \E j \in DiffJobs :
          \/ generated' = [generated EXCEPT !.PresubmitsStatic = Append(@, j)]
          \/ generated' = [generated EXCEPT !.PostsubmitsStatic = Append(@, j)]
    /\ UNCHANGED <<persisted, printed, dpc, checkVars, envVars,
                   mergeVars, aliasVars, matrixVars, validateVars, convertVars>>

\* one more job in the persisted configuration of the repository
Persist ==
    /\ dpc = "start"
    /\ DiffSize < MaxDiffJobs
    /\ \E j \in DiffJobs :
          \/ persisted' = [persisted EXCEPT !.PresubmitsStatic = Append(@, j)]
          \/ persisted' = [persisted EXCEPT !.PostsubmitsStatic = Append(@, j)]
    /\ UNCHANGED <<generated, printed, dpc, checkVars, envVars,
                   mergeVars, aliasVars, matrixVars, validateVars, convertVars>>

\* Diff(result, existing)
DiffConfigs ==
    /\ dpc = "start"
    /\ printed' = Diff(generated, persisted)
    /\ dpc' = "done"
    /\ UNCHANGED <<generated, persisted, checkVars, envVars,
                   mergeVars, aliasVars, matrixVars, validateVars, convertVars>>

DiffNext == Generate \/ Persist \/ DiffConfigs

SpecDiff == DiffInit /\ [][DiffNext]_vars

\* the lines printed under the heading of the presubmits, of the postsubmits
PostHeading ==
    CHOOSE x \in DOMAIN printed : printed[x] = Line("heading", "Postsubmit diff:", <<>>)

PresubmitLines == SubSeq(printed, 2, PostHeading - 1)

PostsubmitLines == SubSeq(printed, PostHeading + 1, Len(printed))

NamesOf(list) == {list[i].Name : i \in DOMAIN list}

Count(lines, kind, name) ==
    Cardinality({x \in DOMAIN lines : lines[x].kind = kind /\ lines[x].name = name})

\* the generated jobs of the name that differ from the persisted job of the name
Differing(gen, pers, name) ==
    {i \in DOMAIN gen :
        /\ gen[i].Name = name
        /\ \E k \in DOMAIN pers :
              /\ pers[k].Name = name
              /\ \A m \in 1..(k - 1) : pers[m].Name # name
              /\ pers[k] # gen[i]}

Classified(lines, gen, pers) ==
    /\ \A name \in NamesOf(gen) \cup NamesOf(pers) :
          /\ Count(lines, "created", name) =
               (IF name \in NamesOf(pers) THEN 0
                ELSE Cardinality({i \in DOMAIN gen : gen[i].Name = name}))
          /\ Count(lines, "diff", name) = Cardinality(Differing(gen, pers, name))
          /\ Count(lines, "detail", name) > 0 <=> Count(lines, "diff", name) > 0
          /\ Count(lines, "missing", name) =
               (IF name \in NamesOf(gen) THEN 0
                ELSE Cardinality({k \in DOMAIN pers : pers[k].Name = name}))
          /\ ~(Count(lines, "created", name) > 0 /\ Count(lines, "missing", name) > 0)
    /\ \A x \in DOMAIN lines : lines[x].name \in NamesOf(gen) \cup NamesOf(pers)
    /\ \A x, y \in DOMAIN lines : (x < y /\ lines[x].kind = "missing") => lines[y].kind = "missing"

\* C25: for the presubmits and for the postsubmits on their own, a generated
\* job without a persisted job of its name is reported as created, one with a
\* persisted namesake is reported with its diff exactly when they differ, a
\* persisted job without a generated one of its name is reported as missing;
\* no name is both created and missing, and the missing ones come last
C25_DiffClassification ==
    dpc = "done" =>
        /\ Classified(PresubmitLines, generated.PresubmitsStatic, persisted.PresubmitsStatic)
        /\ Classified(PostsubmitLines, generated.PostsubmitsStatic, persisted.PostsubmitsStatic)

\* a presubmit created and one missing, a postsubmit that differs
C25_Witness ==
    /\ dpc = "done"
    /\ NamesOf(generated.PresubmitsStatic) = {"a"}
    /\ NamesOf(persisted.PresubmitsStatic) = {"b"}
    /\ Len(generated.PostsubmitsStatic) = 1
    /\ Len(persisted.PostsubmitsStatic) = 1
    /\ Count(PresubmitLines, "created", "a") = 1
    /\ Count(PresubmitLines, "missing", "b") = 1
    /\ Count(PostsubmitLines, "diff", generated.PostsubmitsStatic[1].Name) = 1

\* a generated job equal to its persisted namesake is not reported
C25_WitnessSame ==
    /\ dpc = "done"
    /\ Len(generated.PresubmitsStatic) = 2
    /\ generated.PresubmitsStatic = persisted.PresubmitsStatic
    /\ Len(printed) = 2

(***************************************************************************)
(* Write and CheckConfig: the generated file and the check against it.     *)
(***************************************************************************)
MaxFileJobs == 2

DefaultAutogenHeader == <<"# THIS FILE IS AUTOGENERATED, DO NOT EDIT IT MANUALLY.">>

\* yaml.Marshal(jobs): the document of the jobs, a line each
RECURSIVE marshalJobs(_, _)
marshalJobs(js, i) ==
    IF i > Len(js) THEN <<>> ELSE <<"- name: ", js[i], "\n">> \o marshalJobs(js, i + 1)

yamlMarshal(js) == IF js = <<>> THEN <<"{}", "\n">> ELSE <<"periodics:", "\n">> \o marshalJobs(js, 1)

\* cmp.Diff(x, y): the places where the two differ
cmpDiff(x, y) ==
    {i \in 1..Max({Len(x), Len(y)}) : i > Len(x) \/ i > Len(y) \/ x[i] # y[i]}

\* the bytes Write hands to ioutil.WriteFile
write(js, h) ==
    (IF h = <<>> THEN DefaultAutogenHeader ELSE h) \o <<"\n">> \o yamlMarshal(js)

checkConfig_lengthOnly(js, current, h) ==
    IF ~current.found THEN "failed to read current config"
    ELSE IF Len((IF h = <<>> THEN DefaultAutogenHeader ELSE h) \o <<"\n">> \o yamlMarshal(js))
              # Len(current.bytes)
    THEN "generated config is different from file"
    ELSE ""

\* Client.CheckConfig: the error, or none
checkConfig(js, current, h) ==
    IF ~current.found THEN "failed to read current config"
    ELSE IF cmpDiff((IF h = <<>> THEN DefaultAutogenHeader ELSE h) \o <<"\n">> \o yamlMarshal(js),
                    current.bytes) # {}
    THEN "generated config is different from file"
    ELSE ""

Headers == {<<>>, <<"# mine">>, DefaultAutogenHeader}

CheckInit ==
    /\ MergeIdle
    /\ configs = <<>>
    /\ AliasIdle
    /\ MatrixIdle
    /\ ValidateIdle
    /\ ConvertIdle
    /\ DiffIdle
    /\ EnvIdle
    /\ checked = <<>>
    /\ header \in Headers
    /\ currentConfigFile = [found |-> FALSE, bytes |-> <<>>, origin |-> <<>>]
    /\ cerr = ""
    /\ kpc = "start"

\* one more job comes out of the generation
GenerateJob ==
    /\ kpc = "start"
    /\ Len(checked) < MaxFileJobs
    /\ \E name \in {"a", "b"} : checked' = Append(checked, name)
    /\ UNCHANGED <<header, currentConfigFile, cerr, kpc, diffVars, envVars,
                   mergeVars, aliasVars, matrixVars, validateVars, convertVars>>

\* the next run is given another header
SetHeader ==
    /\ kpc = "start"
    /\ currentConfigFile.found
    /\ \E h \in Headers \ {header} : header' = h
    /\ UNCHANGED <<checked, currentConfigFile, cerr, kpc, diffVars, envVars,
                   mergeVars, aliasVars, matrixVars, validateVars, convertVars>>

\* Write(jobs, fname, header)
Write ==
    /\ kpc = "start"
    /\ currentConfigFile' = [found |-> TRUE, bytes |-> write(checked, header),
                             origin |-> <<<<checked, header>>>>]
    /\ UNCHANGED <<checked, header, cerr, kpc, diffVars, envVars,
                   mergeVars, aliasVars, matrixVars, validateVars, convertVars>>

\* somebody edits the file by hand: a byte changed, dropped or added
EditFile ==
    /\ kpc = "start"
    /\ currentConfigFile.found
    /\ currentConfigFile.origin # <<>>
    /\ \E b \in { [currentConfigFile.bytes EXCEPT ![i] = "x"] : i \in DOMAIN currentConfigFile.bytes }
                \cup { SubSeq(currentConfigFile.bytes, 1, Len(currentConfigFile.bytes) - 1),
                       Append(currentConfigFile.bytes, "\n") } :
          currentConfigFile' = [found |-> TRUE, bytes |-> b, origin |-> <<>>]
    /\ UNCHANGED <<checked, header, cerr, kpc, diffVars, envVars,
                   mergeVars, aliasVars, matrixVars, validateVars, convertVars>>

\* Client.CheckConfig(jobs, currentConfigFile, header)
CheckConfig ==
    /\ kpc = "start"
    /\ cerr' = checkConfig(checked, currentConfigFile, header)
    /\ kpc' = "done"
    /\ UNCHANGED <<checked, header, currentConfigFile, diffVars, envVars,
                   mergeVars, aliasVars, matrixVars, validateVars, convertVars>>

CheckNext == GenerateJob \/ SetHeader \/ Write \/ EditFile \/ CheckConfig

SpecCheck == CheckInit /\ [][CheckNext]_vars

\* the header of the file: the one given, or the default one
ExpectedHeader ==
    IF header = <<>> THEN <<"# THIS FILE IS AUTOGENERATED, DO NOT EDIT IT MANUALLY.">> ELSE header

\* C26: CheckConfig returns no error exactly when the bytes of the file are the
\* header (the default one when none is given), a newline and the serialized
\* jobs; so it succeeds on the file Write has just produced from the same
\* jobs and header, and fails on a file that differs in a byte
C26_CheckMode ==
    kpc = "done" =>
        /\ cerr = "" <=>
             /\ currentConfigFile.found
             /\ currentConfigFile.bytes = ExpectedHeader \o <<"\n">> \o yamlMarshal(checked)
        /\ currentConfigFile.origin = <<<<checked, header>>>> => cerr = ""

\* the check of the file just written succeeds
C26_Witness ==
    /\ kpc = "done"
    /\ Len(checked) = 2
    /\ header = <<>>
    /\ currentConfigFile.origin = <<<<checked, header>>>>
    /\ cerr = ""

\* the check of a file of the right length with one byte changed fails
C26_WitnessEdited ==
    /\ kpc = "done"
    /\ currentConfigFile.found
    /\ currentConfigFile.origin = <<>>
    /\ Len(currentConfigFile.bytes) = Len(write(checked, header))
    /\ cerr # ""

\* what the testgrid integration adds to the jobs of a kind
Injected(kind) ==
    IF ~cli.BaseConfig.TestgridConfig.Enabled THEN EmptyMap
    ELSE IF kind = "presubmit"
    THEN [k \in {"testgrid-dashboards"} |->
            Str(catalog.Org) \o (IF branch # Master THEN <<"_">> \o branch ELSE <<>>)
              \o <<"_">> \o Str(catalog.Repo)]
    ELSE [k \in InjectedKeys |->
            IF k = "testgrid-dashboards"
            THEN Str(catalog.Org) \o (IF branch # Master THEN <<"_">> \o branch ELSE <<>>)
                   \o <<"_">> \o Str(catalog.Repo)
                   \o (IF kind = "postsubmit"
                       THEN <<"_", "p", "o", "s", "t", "s", "u", "b", "m", "i", "t">>
                       ELSE <<"_", "p", "e", "r", "i", "o", "d", "i", "c">>)
            ELSE IF k = "testgrid-alert-email" THEN cli.BaseConfig.TestgridConfig.AlertEmail
            ELSE cli.BaseConfig.TestgridConfig.NumFailuresToAlert]

\* under the keys the job does not declare, a job of the kind holds what is
\* injected for its kind and nothing injected for another kind
OwnStorage(made, kind) ==
    \A i \in DOMAIN made :
        i \in DOMAIN JobsWanting(kind) =>
            \A k \in InjectedKeys \ DOMAIN JobsWanting(kind)[i].Annotations :
                IF k \in DOMAIN Injected(kind)
                THEN /\ k \in DOMAIN made[i].Annotations
                     /\ made[i].Annotations[k] = Injected(kind)[k]
                ELSE k \notin DOMAIN made[i].Annotations

\* C27: the presubmit, postsubmit and periodic made from one job do not share
\* annotation storage, also when the job declares annotations of its own: what
\* is injected into one does not show in another, and with testgrid enabled the
\* postsubmit's dashboard is <org>[_<branch>]_<repo>_postsubmit and the
\* periodic's ..._periodic whenever the job does not supply that key
C27_SeparateStorage ==
    Converted =>
        /\ OwnStorage(output.PresubmitsStatic, "presubmit")
        /\ OwnStorage(output.PostsubmitsStatic, "postsubmit")
        /\ OwnStorage(output.Periodics, "periodic")

\* the job declares an annotation of its own, owner; its postsubmit carries
\* the presubmit's dashboard and its presubmit the postsubmit's alert address
C27_Witness ==
    /\ Converted
    /\ cli.BaseConfig.TestgridConfig.Enabled
    /\ branch = Master
    /\ Len(catalog.Jobs) = 1
    /\ catalog.Jobs[1].Types = <<>>
    /\ catalog.Jobs[1].Annotations = [k \in {"owner"} |-> <<"mine">>]
    /\ Len(output.PostsubmitsStatic) = 1
    /\ output.PostsubmitsStatic[1].Annotations["testgrid-dashboards"] = <<"acme", "_", "r">>
    /\ "testgrid-alert-email" \in DOMAIN output.PresubmitsStatic[1].Annotations

\* a job that declares no annotation: each of its jobs holds its own
C27_WitnessOwn ==
    /\ Converted
    /\ cli.BaseConfig.TestgridConfig.Enabled
    /\ Len(catalog.Jobs) = 1
    /\ catalog.Jobs[1].Types = <<"presubmit", "periodic">>
    /\ DOMAIN catalog.Jobs[1].Annotations = {}
    /\ DOMAIN output.PresubmitsStatic[1].Annotations = {"testgrid-dashboards"}
    /\ DOMAIN output.Periodics[1].Annotations = InjectedKeys

\* C28: every periodic made from a validated catalog has exactly one of Cron
\* and Interval set, whatever the job's cron or interval and whether or not a
\* preset it requires carries a cron
C28_OneSchedule ==
    Converted =>
        \A i \in DOMAIN output.Periodics :
            (output.Periodics[i].Cron # <<>>) # (output.Periodics[i].Interval # <<>>)

\* the job declares an interval and requires, without excluding it, a preset
\* that carries a cron: its periodic has both
C28_Witness ==
    /\ Converted
    /\ Len(catalog.Jobs) = 1
    /\ catalog.Jobs[1].Interval = <<"1", "h">>
    /\ catalog.Jobs[1].Cron = <<>>
    /\ catalog.Jobs[1].Requirements = <<"nightly">>
    /\ catalog.Jobs[1].ExcludedRequirements = <<>>
    /\ Len(output.Periodics) = 1
    /\ output.Periodics[1].Applied = <<"nightly">>
    /\ output.Periodics[1].Interval = <<"1", "h">>
    /\ output.Periodics[1].Cron = <<"@daily">>

\* a periodic with an interval alone, and one with a cron alone
C28_WitnessOne ==
    /\ Converted
    /\ Len(output.Periodics) = 2
    /\ output.Periodics[1].Interval # <<>> /\ output.Periodics[1].Cron = <<>>
    /\ output.Periodics[2].Interval = <<>> /\ output.Periodics[2].Cron # <<>>

\* C29: when ConvertJobConfig returns the error of a name that is too long, the
\* job set it returns holds no presubmit, postsubmit or periodic, whatever the
\* place of the failing job in the catalog
C29_NothingOnNameError ==
    (cpc = "done" /\ validateJobsConfig(catalog) = <<>> /\ output.err # <<>>) =>
        /\ output.PresubmitsStatic = <<>>
        /\ output.PostsubmitsStatic = <<>>
        /\ output.Periodics = <<>>

\* the second job's name is too long: the error comes back together with the
\* presubmit and the postsubmit of the first job
C29_Witness ==
    /\ cpc = "done"
    /\ ~cli.LongJobNamesAllowed
    /\ Len(catalog.Jobs) = 2
    /\ catalog.Jobs[1] = DefaultJob
    /\ Len(catalog.Jobs[2].Name) = 62
    /\ catalog.Jobs[2].Types = <<>>
    /\ branch = Master
    /\ Len(output.err) = 1
    /\ Len(output.err[1].job) = 64
    /\ Len(output.PresubmitsStatic) = 1
    /\ output.PresubmitsStatic[1].Name = <<"n", "_", "r">>
    /\ Len(output.PostsubmitsStatic) = 1

\* the first job's name is too long: nothing comes back with the error
C29_WitnessFirst ==
    /\ cpc = "done"
    /\ Len(catalog.Jobs) = 2
    /\ Len(catalog.Jobs[1].Name) = 62
    /\ catalog.Jobs[2] = DefaultJob
    /\ Len(output.err) = 1
    /\ Materialized(output) = 0

(***************************************************************************)
(* joinEnv: the environment of a job's container, from the variables of    *)
(* the catalog and those of the job.                                       *)
(***************************************************************************)
MaxEnv == 3

\* the names A, AB and a, as their bytes
EnvNames == {<<65>>, <<65, 66>>, <<97>>}

\* v1.EnvVar; ValueFrom "" is the nil pointer
EnvVars == [Name : EnvNames, Value : {"", "1", "2"}, ValueFrom : {""}]
             \cup [Name : EnvNames, Value : {"", "1"}, ValueFrom : {"secretKeyRef"}]

\* a < b for strings: byte by byte, a proper prefix first
RECURSIVE Less(_, _)
Less(a, b) ==
    IF b = <<>> THEN FALSE
    ELSE IF a = <<>> THEN TRUE
    ELSE IF Head(a) # Head(b) THEN Head(a) < Head(b)
    ELSE Less(Tail(a), Tail(b))

\* the inner loop: envMap[e.Name] = e.ValueFrom, or e.Value when that is nil
RECURSIVE putAll(_, _, _)
putAll(envMap, es, i) ==
    IF i > Len(es) THEN envMap
    ELSE putAll([k \in DOMAIN envMap \cup {es[i].Name} |->
                    IF k = es[i].Name
                    THEN IF es[i].ValueFrom # ""
                         THEN [type |-> "*v1.EnvVarSource", v |-> es[i].ValueFrom]
                         ELSE [type |-> "string", v |-> es[i].Value]
                    ELSE envMap[k]],
                es, i + 1)

\* the outer loop over the lists
RECURSIVE envMapOf(_, _, _)
envMapOf(envMap, lists, i) ==
    IF i > Len(lists) THEN envMap ELSE envMapOf(putAll(envMap, lists[i], 1), lists, i + 1)

\* the orders in which range may walk the map
Walks(envMap) ==
    {w \in [1..Cardinality(DOMAIN envMap) -> DOMAIN envMap] :
        \A i, k \in DOMAIN w : i # k => w[i] # w[k]}

\* the loop over the map, with the switch on the type of the value
resOf(envMap, walk) ==
    [i \in DOMAIN walk |->
        IF envMap[walk[i]].type = "string"
        THEN [Name |-> walk[i], Value |-> envMap[walk[i]].v, ValueFrom |-> ""]
        ELSE [Name |-> walk[i], Value |-> "", ValueFrom |-> envMap[walk[i]].v]]

\* one element put in its place among sorted ones
RECURSIVE insertByName(_, _)
insertByName(sorted, e) ==
    IF sorted = <<>> THEN <<e>>
    ELSE IF Less(e.Name, Head(sorted).Name) THEN <<e>> \o sorted
    ELSE <<Head(sorted)>> \o insertByName(Tail(sorted), e)

sortSlice_unsorted(res) == res

\* sort.Slice(res, func(i, j int) bool { return res[i].Name < res[j].Name })
RECURSIVE sortSlice(_)
sortSlice(res) ==
    IF res = <<>> THEN <<>>
    ELSE insertByName(sortSlice(SubSeq(res, 1, Len(res) - 1)), res[Len(res)])

\* joinEnv(envs...), the map walked in the given order
joinEnv(lists, walk) == sortSlice(resOf(envMapOf([k \in {} |-> ""], lists, 1), walk))

EnvInit ==
    /\ MergeIdle
    /\ configs = <<>>
    /\ AliasIdle
    /\ MatrixIdle
    /\ ValidateIdle
    /\ ConvertIdle
    /\ DiffIdle
    /\ CheckIdle
    /\ envs = <<<<>>, <<>>>>
    /\ joined = <<>>
    /\ epc = "start"

\* one more variable in the env of the catalog file
ReadCatalogEnv ==
    /\ epc = "start"
    /\ Len(envs[1]) + Len(envs[2]) < MaxEnv
    /\ \E e \in EnvVars : envs' = [envs EXCEPT ![1] = Append(@, e)]
    /\ UNCHANGED <<joined, epc, diffVars, checkVars,
                   mergeVars, aliasVars, matrixVars, validateVars, convertVars>>

\* one more variable in the env of the job
ReadJobEnv ==
    /\ epc = "start"
    /\ Len(envs[1]) + Len(envs[2]) < MaxEnv
    /\ \E e \in EnvVars : envs' = [envs EXCEPT ![2] = Append(@, e)]
    /\ UNCHANGED <<joined, epc, diffVars, checkVars,
                   mergeVars, aliasVars, matrixVars, validateVars, convertVars>>

\* createContainer: envs := joinEnv(jobConfig.Env, job.Env)
JoinEnv ==
    /\ epc = "start"
    /\ \E walk \in Walks(envMapOf([k \in {} |-> ""], envs, 1)) :
          joined' = joinEnv(envs, walk)
    /\ epc' = "done"
    /\ UNCHANGED <<envs, diffVars, checkVars,
                   mergeVars, aliasVars, matrixVars, validateVars, convertVars>>

EnvNext == ReadCatalogEnv \/ ReadJobEnv \/ JoinEnv

SpecEnv == EnvInit /\ [][EnvNext]_vars

\* the variables in the order of their priority, the job's after the catalog's
ByPriority == envs[1] \o envs[2]

LastOf(name) == ByPriority[Max({k \in DOMAIN ByPriority : ByPriority[k].Name = name})]

\* C30: the result of joinEnv has every variable name of its inputs exactly
\* once and no other, in ascending order of the names, each with the value, or
\* the value source when there is one, of the name's last occurrence reading
\* the catalog's list and then the job's
C30_JoinEnv ==
    epc = "done" =>
        /\ \A i, k \in DOMAIN joined : i < k => Less(joined[i].Name, joined[k].Name)
        /\ {joined[i].Name : i \in DOMAIN joined} =
             {ByPriority[k].Name : k \in DOMAIN ByPriority}
        /\ \A i \in DOMAIN joined :
             /\ joined[i].ValueFrom = LastOf(joined[i].Name).ValueFrom
             /\ joined[i].Value =
                  IF LastOf(joined[i].Name).ValueFrom = "" THEN LastOf(joined[i].Name).Value
                  ELSE ""

\* the catalog sets a and then A, the job sets A again: A comes first, with
\* the job's value
C30_Witness ==
    /\ epc = "done"
    /\ envs[1] = <<[Name |-> <<97>>, Value |-> "1", ValueFrom |-> ""],
                   [Name |-> <<65>>, Value |-> "1", ValueFrom |-> ""]>>
    /\ envs[2] = <<[Name |-> <<65>>, Value |-> "2", ValueFrom |-> ""]>>
    /\ joined = <<[Name |-> <<65>>, Value |-> "2", ValueFrom |-> ""],
                  [Name |-> <<97>>, Value |-> "1", ValueFrom |-> ""]>>

\* a value source in the job replaces the value of the catalog, and AB comes
\* after A
C30_WitnessSource ==
    /\ epc = "done"
    /\ Len(envs[1]) = 2 /\ Len(envs[2]) = 1
    /\ envs[1][1].Name = <<65, 66>> /\ envs[1][2].Name = <<65>>
    /\ envs[1][2].Value = "1" /\ envs[1][2].ValueFrom = ""
    /\ envs[2][1].Name = <<65>> /\ envs[2][1].ValueFrom = "secretKeyRef"
    /\ Len(joined) = 2
    /\ joined[1] = [Name |-> <<65>>, Value |-> "", ValueFrom |-> "secretKeyRef"]
    /\ joined[2].Name = <<65, 66>>

====
